---- MODULE Spec2Model ----
(***************************************************************************)
(* State-machine model of the RAG documentation assistant:                 *)
(*   - app/rag.py            respond_stream, build_citations_from_docs,    *)
(*                           retrieve_relevant_docs                        *)
(*   - app/api/chat.py       the /chat handler (event_source, sse)         *)
(*   - indexing/crawler/rate_limit_backoff.py                              *)
(*                           fetch_with_rate_limit_and_backoff             *)
(*   - indexing/crawler/fetcher_v1.py   fetch_and_save (record shapes)     *)
(*                                                                         *)
(* Python values are encoded as follows.  An optional value (a dict key    *)
(* that may be missing or hold None) is a set: {} is None/missing and {v}  *)
(* is the value v.  Strings are TLA+ strings, dicts are records.           *)
(***************************************************************************)
EXTENDS Integers, Sequences, FiniteSets, TLC

VARIABLES
    \* ---- app/rag.py respond_stream + app/api/chat.py event_source ----
    messages,       \* the request's message list (input)
    pc,             \* position of the respond_stream generator
    hpc,            \* position of the event_source generator of /chat
    question,       \* respond_stream local: stripped content of the last message
    docs,           \* respond_stream local: retrieved Documents
    citations,      \* respond_stream local: citation list
    full_answer,    \* respond_stream local: accumulated answer
    events,         \* events yielded by respond_stream, in order
    frames,         \* SSE frames yielded by event_source, in order
    generated,      \* history: tokens produced by chain.astream, in order
    calls,          \* history: [retrieve, chain] number of invocations
    outcome,        \* history: how retrieval / generation ended, [kind, detail]
    cancelledAt,    \* history: "no", or the position at which the consumer cancelled
    \* ---- build_citations_from_docs as a pure function ----
    cdocs,          \* input Documents
    cout,           \* {} before the call, {result} after
    \* ---- rate_limit_backoff.py fetch_with_rate_limit_and_backoff ----
    fpc,            \* position in the wrapper's loop
    max_retries,    \* argument
    min_interval_s, \* argument (clock ticks)
    url,            \* argument
    attempt,        \* local: retry counter
    rec,            \* local: {} or {the last record returned by fetch_fn}
    total_rl_wait,  \* local
    last_backoff,   \* local
    now,            \* time.monotonic(), in ticks
    LAST_HIT_PER_HOST, \* module global _LAST_HIT_PER_HOST
    fcalls,         \* history: number of fetch_fn calls
    fsleeps,        \* history: number of backoff sleeps
    allRetryable,   \* history: every fetch_fn call returned a record to retry
    wcalls,         \* history: number of wrapper calls started
    waitedHost,     \* history: {} or {host of the wait since the last fetch_fn}
    unwaited,       \* history: some fetch_fn call had no wait for its host
    issued,         \* history: host -> time of its last fetch_fn call
    lastGap,        \* history: {} or {[gap, interval]}: time between the last
                    \* fetch_fn call and the one before it to the same host,
                    \* and the min_interval_s in force
    \* ---- embedder.py _embed_batch ----
    epc,            \* position in the retry loop
    etexts,         \* argument: the batch of texts
    eattempt,       \* local: attempt
    ebackoff,       \* local: backoff (seconds)
    ecalls,         \* history: number of provider calls
    esleeps,        \* history: the sleeps, in order (seconds)
    eresult,        \* {} or {[kind, value]}: what the call returned or raised
    \* ---- pinecone_client.py upsert ----
    upc,            \* position in upsert
    uitems,         \* argument: items
    umax_retries,   \* argument: max_retries
    uinitial_backoff_s, \* argument: initial_backoff_s (tenths of a second)
    udelay,         \* local: delay (tenths of a second)
    uattempt,       \* local: attempt
    ulast_exc,      \* local: last_exc, {} or {exception}
    ucallLog,       \* history: outcome of each index.upsert call, in order
    usleeps,        \* history: the sleeps, in order (tenths of a second)
    uresult,        \* {} or {[kind, value]}: what upsert returned or raised
    \* ---- crawler.py Crawler.run, the in-line fetch loop ----
    kpc,            \* position in the loop
    kretries,       \* self.cfg.retries
    kattempt,       \* loop variable attempt
    kresp,          \* local resp: {} is None, else {response}
    klog,           \* history: the outcome of each client.get, in order
    ksleeps,        \* history: the sleeps, in order (tenths of a second)
    \* ---- crawler.py Crawler.run, the queue loop ----
    rpc,            \* position in run
    rseeds,         \* the seed group's urls
    rmax_depth,     \* self.cfg.max_depth
    rqueue,         \* local queue: [url, depth, parent]
    rcur,           \* {} or {the item dequeued and being fetched}
    rvisited,       \* self.visited
    rsaved,         \* history: the canonical URLs written to disk, in order
    rindex,         \* the records written to index.jsonl, in order
    rtotals,        \* local totals
    rrobots,        \* self.robots._cache: host -> the rules parsed for it
    rhost_rate,     \* self.host_rate: host -> tenths of a second from now
                    \* to the next allowed instant, 0 if it has passed
    rinterval,      \* 1.0 / max(self.cfg.rate_per_host, 1e-6), in tenths
    rlatency,       \* the time a GET takes, in tenths of a second
    rsince,         \* history: host -> tenths of a second since its last
                    \* page GET began, rinterval standing for that or more
    rlast_gap,      \* history: {} or {rsince of the host when the last page
                    \* GET began}, {} for the first GET to a host
    rrobots_gets,   \* history: the hosts whose robots.txt was requested
    rgets,          \* history: the URLs of the page GETs, as a set
    renqueued,      \* history: every item appended to queue, in order
    rdequeued,      \* history: every item popped from queue, in order
    \* ---- ingest_index.py batch_iter as a pure function ----
    bstream,        \* input: the elements of the iterable, in order
    bsize,          \* input: batch_size
    bout,           \* {} before the call, {the lists yielded, in order} after
    \* ---- ingest_index.py ingest_file ----
    ipc,            \* position in ingest_file
    ichunks,        \* the JSON objects read_jsonl yields for the file
    ibatch_size,    \* argument batch_size
    ibatches,       \* the batches batch_iter has still to yield
    iok,            \* local ok
    itotal,         \* local total_vectores_a_enviar
    iembedded,      \* history: the text lists given to EMB.embed_texts
    isent,          \* history: the item lists given to PC.upsert
    isubmitted,     \* history: the item lists of upserts that succeeded
    idepFailed,     \* history: the provider or the vector store failed
    iresult,        \* {} or {[kind, ...]}: what ingest_file returned or raised
    \* ---- indexer.py, the orchestrator script ----
    xpc,            \* position in the script
    xfiles,         \* files = iter_jsonl_files(CHUNKS_DIR)
    xi,             \* index of the file the loop is at
    total_ok,       \* script variable
    total_err,      \* script variable
    processed,      \* script variable
    xinvoked,       \* history: files whose ingest_file call started to run
    summary,        \* {} or {summary}
    xerror,         \* {} or {exception that ended the script}
    \* ---- chunker/core.py make_chunks as a pure function ----
    page,           \* input: the parsed page
    chunks,         \* {} before the call, {the list returned} after
    page2,          \* input of a second call: the page again, or edited
    chunks2,        \* {} before the second call, {its list} after
    \* ---- parser/core.py _DocHTMLParser, parse_document, then make_chunks ----
    ppc,            \* "idle", "feeding", "parsed", "chunked"
    feed,           \* input: the tokens of a page given whole, still to come
    left,           \* how many freely chosen tokens may still come
    parser,         \* the _DocHTMLParser object
    deep,           \* history: {} or {[text, closed]}, the h4-h6 being read
    open_skips,     \* history: per skip tag, start tags not yet closed
    pdoc,           \* {} or {the dict parse_document returned}
    pchunks,        \* {} or {the list make_chunks returned for pdoc}
    \* ---- ingest_index.py helper_no_null as a pure function ----
    sitems,         \* input: the items
    sresult,        \* {} before the call, {[kind, value]} after
    \* ---- indexing/crawler/seeds_loader.py normalize_url ----
    nraw,           \* input: the raw URL
    nonce,          \* {} before the call, then {normalize_url(nraw)}
    ntwice,         \* {} or {normalize_url of the first result}
    \* ---- indexing/crawler/filters.py filters ----
    furls,          \* input: the URL list
    fresult         \* {} before the call, then {[allowed, report]}

chatVars  == <<messages, pc, hpc, question, docs, citations, full_answer,
               events, frames, generated, calls, outcome, cancelledAt>>
citeVars  == <<cdocs, cout>>
fetchVars == <<fpc, max_retries, min_interval_s, url, attempt, rec,
               total_rl_wait, last_backoff, now, LAST_HIT_PER_HOST,
               fcalls, fsleeps, allRetryable, wcalls, waitedHost, unwaited,
               issued, lastGap>>
embedVars == <<epc, etexts, eattempt, ebackoff, ecalls, esleeps, eresult>>
upsertVars == <<upc, uitems, umax_retries, uinitial_backoff_s, udelay,
                uattempt, ulast_exc, ucallLog, usleeps, uresult>>
runVars == <<rpc, rseeds, rmax_depth, rqueue, rcur, rvisited, rsaved,
             rindex, rtotals, rrobots, rhost_rate, rinterval, rlatency,
             rsince, rlast_gap, rrobots_gets, rgets, renqueued, rdequeued>>
crawlVars == <<kpc, kretries, kattempt, kresp, klog, ksleeps, runVars>>
batchVars == <<bstream, bsize, bout>>
ingestVars == <<ipc, ichunks, ibatch_size, ibatches, iok, itotal, iembedded,
                isent, isubmitted, idepFailed, iresult>>
indexerVars == <<xpc, xfiles, xi, total_ok, total_err, processed, xinvoked,
                 summary, xerror>>
parseVars == <<ppc, feed, left, parser, deep, open_skips, pdoc, pchunks>>
chunkVars == <<page, chunks, page2, chunks2, parseVars>>
sanitizeVars == <<sitems, sresult>>
normVars == <<nraw, nonce, ntwice>>
filterVars == <<furls, fresult>>
toolVars == <<sanitizeVars, normVars, filterVars>>
pipeVars == <<embedVars, upsertVars, crawlVars, batchVars, ingestVars,
              indexerVars, chunkVars, toolVars>>
vars == <<chatVars, citeVars, fetchVars, pipeVars>>

(***************************************************************************)
(* Bounds of the model.                                                    *)
(***************************************************************************)
MaxMsgs   == 2    \* longest message list
MaxDocs   == 2    \* most matches returned by the vector index (top_k caps it)
MaxTokens == 2    \* most tokens the chat model streams
MaxRetriesArg == 3  \* largest max_retries passed to the fetch wrapper
MaxWrapperCalls == 2  \* most calls of the fetch wrapper after the first
MaxClock == 6       \* last clock value at which idle time still passes
MaxBatchTexts == 2  \* longest batch of texts given to _embed_batch
MaxUpsertRetries == 2  \* largest max_retries passed to upsert
MaxCrawlRetries == 2   \* largest retries of the crawler's configuration
MaxStream == 4      \* longest input of batch_iter
MaxBatchSize == 2   \* largest batch_size
MaxParseEvents == 5 \* most freely chosen tokens fed to the HTML parser
MaxChunks == 3      \* most JSON objects in a chunk file
MaxFiles == 7       \* most chunk files in the chunks directory
MaxChildren == 2    \* most child sections of a section of a parsed page
MaxDepth == 1          \* largest max_depth of the crawler's configuration
MaxLatency == 1        \* longest GET of the crawl (tenths of a second)
MaxFilterUrls == 3     \* longest URL list given to filters
MaxSanitizeItems == 1  \* most items in one helper_no_null call
MaxSections == 2    \* most top-level sections that an edit can be made in

(***************************************************************************)
(* Python helpers.                                                         *)
(***************************************************************************)
None == {}
Some(v) == {v}
\* Python truthiness of an optional string: None and "" are falsy.
Truthy(o) == \E v \in o : v # ""
\* a or b
Or(a, b) == IF Truthy(a) THEN a ELSE b
\* the value inside a truthy optional
The(o) == CHOOSE v \in o : TRUE
\* dict.get(k)
Get(d, k) == IF k \in DOMAIN d THEN d[k] ELSE None

IsSpace(c) == c \in {" ", "\n", "\t"}
RECURSIVE LStrip(_)
LStrip(s) ==
    IF Len(s) > 0 /\ IsSpace(SubSeq(s, 1, 1))
    THEN LStrip(SubSeq(s, 2, Len(s))) ELSE s
RECURSIVE RStrip(_)
RStrip(s) ==
    IF Len(s) > 0 /\ IsSpace(SubSeq(s, Len(s), Len(s)))
    THEN RStrip(SubSeq(s, 1, Len(s) - 1)) ELSE s
\* str.strip()
Strip(s) == RStrip(LStrip(s))

\* s.startswith(p)
StartsWith(s, p) == Len(s) >= Len(p) /\ SubSeq(s, 1, Len(p)) = p

\* sep.join(parts)
RECURSIVE JoinWith(_, _)
JoinWith(parts, sep) ==
    IF Len(parts) = 0 THEN ""
    ELSE IF Len(parts) = 1 THEN parts[1]
    ELSE parts[1] \o sep \o JoinWith(Tail(parts), sep)

\* All sequences over S of length at most n.
SeqsUpTo(S, n) == UNION {[1..k -> S] : k \in 0..n}

(***************************************************************************)
(* app/rag.py: citations and retrieval.                                    *)
(* A match's metadata is a record of optionals; missing metadata           *)
(* (`metadata or {}`) is the record whose fields are all None.             *)
(***************************************************************************)
Document(text, metadata) == [page_content |-> text, metadata |-> metadata]

\* Variant: url_final preferred over url_citable.
CitationUrl_FinalFirst(metadata) ==
    Or(metadata.url_final, metadata.url_citable)

\* rag.py:157  url = metadata.get("url_citable") or metadata.get("url_final")
CitationUrl(metadata) == Or(metadata.url_citable, metadata.url_final)

\* rag.py:155,170-171  title, defaulting to the generic label
CitationTitle(metadata) ==
    IF ~Truthy(metadata.title) THEN "Fuente" ELSE The(metadata.title)

\* rag.py:152-178  the loop body, from document i on, with the accumulators
RECURSIVE CitationsLoop(_, _, _, _)
CitationsLoop(ds, i, cits, seen_urls) ==
    IF i > Len(ds) THEN cits
    ELSE LET metadata == ds[i].metadata
             u == CitationUrl(metadata)
         IN  IF ~Truthy(u) THEN CitationsLoop(ds, i + 1, cits, seen_urls)
             ELSE IF The(u) \in seen_urls
                  THEN CitationsLoop(ds, i + 1, cits, seen_urls)
             ELSE CitationsLoop(ds, i + 1,
                      Append(cits, [title |-> CitationTitle(metadata),
                                    url   |-> The(u)]),
                      seen_urls \cup {The(u)})

build_citations_from_docs(ds) == CitationsLoop(ds, 1, <<>>, {})

\* rag.py:194
TEXT_FIELD_NAME == "text"

\* rag.py:217-231  one Document per match; page_content is the stripped
\* `text` metadata field, "" when absent.
MatchText(metadata) ==
    Strip(IF Truthy(Get(metadata, TEXT_FIELD_NAME))
          THEN The(metadata[TEXT_FIELD_NAME]) ELSE "")

DocsOfMatches(matches) ==
    [i \in 1..Len(matches) |-> Document(MatchText(matches[i]), matches[i])]

(***************************************************************************)
(* app/rag.py respond_stream, driven by app/api/chat.py event_source.      *)
(*                                                                         *)
(* pc is where the respond_stream generator is suspended:                  *)
(*   "start"           created, not yet advanced                           *)
(*   "await_retrieve"  line 323, awaiting retrieve_relevant_docs           *)
(*   "await_token"     line 358, awaiting the next item of chain.astream   *)
(*   "yield_chunk"     line 364      "sleep0"       line 368               *)
(*   "yield_error"     lines 307, 329, 373   "yield_done"  line 387        *)
(*   "returned"        finished      "raised"  ended by an exception       *)
(*   "closed"          finalized while suspended at a yield (or unstarted) *)
(* hpc is the event_source generator: "iterating", "returned", "raised",   *)
(* "closed".                                                               *)
(* The accents of the Spanish messages are dropped (ASCII strings).        *)
(***************************************************************************)
NoValidEvent ==
    [type |-> "error", message |-> "No se recibieron mensajes validos."]
\* Variant: the error event without the `detail` key.
RetrieveErrorEvent_NoDetail(detail) ==
    [type |-> "error",
     message |-> "Error al recuperar el contexto desde la base vectorial."]

RetrieveErrorEvent(detail) ==
    [type |-> "error",
     message |-> "Error al recuperar el contexto desde la base vectorial.",
     detail |-> detail]
GenerateErrorEvent(detail) ==
    [type |-> "error",
     message |-> "Ocurrio un error al generar la respuesta.",
     detail |-> detail]
ChunkEvent(chunk) == [chunk |-> chunk]
DoneEvent(cits) == [done |-> TRUE, citations |-> cits]

IsError(e) == "type" \in DOMAIN e /\ e.type = "error"
IsDone(e)  == "done" \in DOMAIN e /\ e.done
IsChunk(e) == "chunk" \in DOMAIN e
IsTerminal(e) == IsError(e) \/ IsDone(e)

\* chat.py:31-33  sse(event): "data: " + json.dumps(event) + "\n\n"
sse(event) == <<"data: ", event, "\n\n">>

\* rag.py:300-301  getattr(m, k, None) or m.get(k).  A dict has no such
\* attribute, so the value is m.get(k); a validated pydantic Message always
\* has a non-empty attribute, so the `or` never reaches m.get.
Field(m, k) == Or(IF m.kind = "model" THEN m[k] ELSE None, m[k])

\* rag.py:302-303  the message is dropped
Dropped(m) == ~Truthy(Field(m, "role")) \/ ~Truthy(Field(m, "content"))

\* rag.py:297-304
RECURSIVE Normalize(_)
Normalize(msgs) ==
    IF msgs = <<>> THEN <<>>
    ELSE LET m == Head(msgs)
         IN  IF Dropped(m) THEN Normalize(Tail(msgs))
             ELSE <<[role |-> The(Field(m, "role")),
                     content |-> The(Field(m, "content"))]>>
                  \o Normalize(Tail(msgs))

\* Variant: CancelledError as a subclass of Exception.
IsException_Cancelled(exc) == exc # "GeneratorExit"

\* Python's exception hierarchy: asyncio.CancelledError and GeneratorExit
\* derive from BaseException, not from Exception (Python >= 3.8).
IsException(exc) == exc \notin {"CancelledError", "GeneratorExit"}

\* rag.py:322-334  what the try around retrieval does with an exception
\* raised inside it: "error_event" (except Exception) or "propagate".
RetrieveTry(exc) == IF IsException(exc) THEN "error_event" ELSE "propagate"

\* Variant: a bare `except: return` in front of the other clauses.
GenerateTry_Swallow(exc) == "return"

\* rag.py:357-378  what the try around the generation loop does with an
\* exception raised inside it.
GenerateTry(exc) ==
    IF exc = "CancelledError" THEN "return"
    ELSE IF IsException(exc) THEN "error_event"
    ELSE "propagate"

\* chat.py:40-44  what event_source does with an exception leaving
\* respond_stream.
EventSourceTry(exc) == IF exc = "CancelledError" THEN "returned" ELSE "raised"

\* A yield of respond_stream: event_source frames the event and yields it
\* to the transport (chat.py:41-42); both generators stay suspended.
Emit(event) ==
    /\ events' = Append(events, event)
    /\ frames' = Append(frames, sse(event))

\* ---- inputs ----
DictMessages ==
    { [kind |-> "dict", role |-> None,         content |-> None],
      [kind |-> "dict", role |-> Some("user"), content |-> None],
      [kind |-> "dict", role |-> Some("user"), content |-> Some("")],
      [kind |-> "dict", role |-> Some("user"), content |-> Some(" q1 ")] }
\* chat.py:21-23  a validated Message: role in the Literal, content non-empty
ModelMessages ==
    { [kind |-> "model", role |-> Some("assistant"), content |-> Some("a1")] }
MessageInputs == DictMessages \cup ModelMessages

ChatMatches ==
    { [title |-> Some("T1"), url_citable |-> Some("u1"),
       url_final |-> Some("u0"), text |-> Some(" t1 ")],
      [title |-> None, url_citable |-> None,
       url_final |-> Some("u1"), text |-> Some("t2")],
      [title |-> Some("T3"), url_citable |-> None,
       url_final |-> None, text |-> None] }
Tokens == {"", "a"}
Details == {"boom", "timeout"}

ChatIdle ==
    /\ messages = <<>>
    /\ pc = "idle" /\ hpc = "idle"
    /\ question = "" /\ docs = <<>> /\ citations = <<>> /\ full_answer = ""
    /\ events = <<>> /\ frames = <<>> /\ generated = <<>>
    /\ calls = [retrieve |-> 0, chain |-> 0]
    /\ outcome = [kind |-> "none", detail |-> ""] /\ cancelledAt = "no"

\* ---- actions ----
\* Variant: the emptiness test looks at the raw list (`if not messages`), so
\* a non-empty list of invalid messages reaches normalized[-1]: IndexError.
Start_ChecksRaw ==
    /\ pc = "start" /\ hpc = "iterating"
    /\ LET normalized == Normalize(messages)
       IN  IF messages = <<>>
           THEN /\ Emit(NoValidEvent)
                /\ pc' = "yield_error"
                /\ outcome' = [kind |-> "no_valid", detail |-> ""]
                /\ UNCHANGED <<question, calls, hpc>>
           ELSE IF normalized = <<>>
           THEN /\ pc' = "raised"
                /\ hpc' = EventSourceTry("Exception")
                /\ UNCHANGED <<question, calls, events, frames, outcome>>
           ELSE /\ question' = Strip(normalized[Len(normalized)].content)
                /\ calls' = [calls EXCEPT !.retrieve = @ + 1]
                /\ pc' = "await_retrieve"
                /\ UNCHANGED <<events, frames, outcome, hpc>>
    /\ UNCHANGED <<messages, docs, citations, full_answer, generated,
                   cancelledAt>>

\* rag.py:297-323  the first advance of the generator: normalization, the
\* "no valid messages" exit, question, and the call of retrieval.
Start ==
    /\ pc = "start" /\ hpc = "iterating"
    /\ LET normalized == Normalize(messages)
       IN  IF normalized = <<>>
           THEN /\ Emit(NoValidEvent)
                /\ pc' = "yield_error"
                /\ outcome' = [kind |-> "no_valid", detail |-> ""]
                /\ UNCHANGED <<question, calls>>
           ELSE /\ question' = Strip(normalized[Len(normalized)].content)
                /\ calls' = [calls EXCEPT !.retrieve = @ + 1]
                /\ pc' = "await_retrieve"
                /\ UNCHANGED <<events, frames, outcome>>
    /\ UNCHANGED <<messages, hpc, docs, citations, full_answer, generated,
                   cancelledAt>>

\* rag.py:323-325, 337-358  retrieval returns; citations are built, the
\* chain is built and chain.astream is entered.
RetrieveOk(matches) ==
    /\ pc = "await_retrieve"
    /\ docs' = DocsOfMatches(matches)
    /\ citations' = build_citations_from_docs(DocsOfMatches(matches))
    /\ calls' = [calls EXCEPT !.chain = @ + 1]
    /\ full_answer' = ""
    /\ outcome' = [kind |-> "retrieved", detail |-> ""]
    /\ pc' = "await_token"
    /\ UNCHANGED <<messages, hpc, question, events, frames, generated,
                   cancelledAt>>

\* An exception `exc` is raised inside the try of rag.py:322-334.
RetrieveRaise(exc, detail) ==
    /\ pc = "await_retrieve"
    /\ IF RetrieveTry(exc) = "error_event"
       THEN /\ Emit(RetrieveErrorEvent(detail))
            /\ pc' = "yield_error"
            /\ UNCHANGED <<hpc, calls, docs, citations>>
       ELSE /\ pc' = "raised"
            /\ hpc' = EventSourceTry(exc)
            /\ UNCHANGED <<events, frames, calls, docs, citations>>
    /\ UNCHANGED <<messages, question, full_answer, generated>>

\* rag.py:327-334  the embedding call or the index query fails.
RetrieveFail(detail) ==
    /\ RetrieveRaise("Exception", detail)
    /\ outcome' = [kind |-> "retrieval_raised", detail |-> detail]
    /\ UNCHANGED cancelledAt

\* Variant: without `if not chunk: continue`.
NextToken_EmitEmpty(chunk) ==
    /\ pc = "await_token"
    /\ Len(generated) < MaxTokens
    /\ generated' = Append(generated, chunk)
    /\ full_answer' = full_answer \o chunk
    /\ Emit(ChunkEvent(chunk))
    /\ pc' = "yield_chunk"
    /\ UNCHANGED <<messages, hpc, question, docs, citations, calls, outcome,
                   cancelledAt>>

\* rag.py:358-366  chain.astream produces a token.
NextToken(chunk) ==
    /\ pc = "await_token"
    /\ Len(generated) < MaxTokens
    /\ generated' = Append(generated, chunk)
    /\ IF chunk = ""
       THEN UNCHANGED <<full_answer, events, frames, pc>>
       ELSE /\ full_answer' = full_answer \o chunk
            /\ Emit(ChunkEvent(chunk))
            /\ pc' = "yield_chunk"
    /\ UNCHANGED <<messages, hpc, question, docs, citations, calls, outcome,
                   cancelledAt>>

\* rag.py:387-390  chain.astream is exhausted: the final event.
GenerateEnd ==
    /\ pc = "await_token"
    /\ Emit(DoneEvent(citations))
    /\ pc' = "yield_done"
    /\ outcome' = [kind |-> "completed", detail |-> ""]
    /\ UNCHANGED <<messages, hpc, question, docs, citations, full_answer,
                   generated, calls, cancelledAt>>

\* An exception `exc` is raised inside the try of rag.py:357-378 while the
\* generator runs (awaiting a token or in asyncio.sleep(0)).
GenerateRaise(exc, detail) ==
    /\ pc \in {"await_token", "sleep0"}
    /\ CASE GenerateTry(exc) = "return" ->
              /\ pc' = "returned" /\ hpc' = "returned"
              /\ UNCHANGED <<events, frames>>
         [] GenerateTry(exc) = "error_event" ->
              /\ Emit(GenerateErrorEvent(detail))
              /\ pc' = "yield_error"
              /\ UNCHANGED hpc
         [] OTHER ->
              /\ pc' = "raised" /\ hpc' = EventSourceTry(exc)
              /\ UNCHANGED <<events, frames>>
    /\ UNCHANGED <<messages, question, docs, citations, full_answer,
                   generated, calls>>

\* rag.py:372-378  the chat model fails.
GenerateFail(detail) ==
    /\ pc = "await_token"
    /\ GenerateRaise("Exception", detail)
    /\ outcome' = [kind |-> "generation_raised", detail |-> detail]
    /\ UNCHANGED cancelledAt

\* Variant: no `return` after the yield of an error event; the generator
\* goes on to the generation loop.
Resume_NoReturn ==
    /\ pc \in {"yield_chunk", "yield_error", "yield_done"}
    /\ hpc = "iterating"
    /\ CASE pc = "yield_chunk" -> pc' = "sleep0" /\ UNCHANGED hpc
         [] pc = "yield_error" -> pc' = "await_token" /\ UNCHANGED hpc
         [] OTHER -> pc' = "returned" /\ hpc' = "returned"
    /\ UNCHANGED <<messages, question, docs, citations, full_answer, events,
                   frames, generated, calls, outcome, cancelledAt>>

\* The transport asks event_source for the next frame, which advances
\* respond_stream past its yield: after a chunk to asyncio.sleep(0)
\* (rag.py:368); after an error event to `return`; after the done event to
\* the end of the function.  event_source's `async for` then ends.
Resume ==
    /\ pc \in {"yield_chunk", "yield_error", "yield_done"}
    /\ hpc = "iterating"
    /\ IF pc = "yield_chunk"
       THEN pc' = "sleep0" /\ UNCHANGED hpc
       ELSE pc' = "returned" /\ hpc' = "returned"
    /\ UNCHANGED <<messages, question, docs, citations, full_answer, events,
                   frames, generated, calls, outcome, cancelledAt>>

\* rag.py:368  asyncio.sleep(0) returns; the loop asks for the next token.
SleepDone ==
    /\ pc = "sleep0"
    /\ pc' = "await_token"
    /\ UNCHANGED <<messages, hpc, question, docs, citations, full_answer,
                   events, frames, generated, calls, outcome, cancelledAt>>

\* The client disconnects: the request's task is cancelled at its current
\* suspension point.  Inside respond_stream (an await) CancelledError is
\* raised there.  When both generators are suspended at a yield (the
\* transport is sending) or not started, the CancelledError is raised in
\* the transport, and the generators are finalized: GeneratorExit is thrown
\* at the yield, which no except clause of rag.py or chat.py catches.
Cancel ==
    /\ cancelledAt = "no"
    /\ hpc = "iterating"
    /\ cancelledAt' = pc
    /\ CASE pc = "await_retrieve" ->
              RetrieveRaise("CancelledError", "")
         [] pc \in {"await_token", "sleep0"} ->
              GenerateRaise("CancelledError", "")
         [] OTHER ->
              /\ pc' = "closed" /\ hpc' = "closed"
              /\ UNCHANGED <<messages, question, docs, citations,
                             full_answer, events, frames, generated, calls>>
    /\ UNCHANGED outcome

(***************************************************************************)
(* build_citations_from_docs checked as a pure function.                   *)
(***************************************************************************)
CiteTitles == {None, Some(""), Some("T1"), Some("T2")}
CiteUrlsCitable == {None, Some(""), Some("u1"), Some("u2")}
CiteUrlsFinal == {None, Some("u1"), Some("u3")}
CiteMetadata ==
    [title : CiteTitles, url_citable : CiteUrlsCitable,
     url_final : CiteUrlsFinal, text : {None}]
CiteDocs == {Document("", md) : md \in CiteMetadata}

CiteIdle == cdocs = <<>> /\ cout = {}

\* rag.py:138-180  one call of build_citations_from_docs
CallBuildCitations ==
    /\ cout = {}
    /\ cout' = {build_citations_from_docs(cdocs)}
    /\ UNCHANGED cdocs

(***************************************************************************)
(* indexing/crawler/fetcher_v1.py fetch_and_save: the record it returns,   *)
(* given what the network did.  A URL is a record [scheme, netloc, path];  *)
(* urlsplit(url).netloc is its netloc field.                               *)
(* resp is None for an httpx.RequestError, else                            *)
(* {[status_code, content_type]}.                                          *)
(***************************************************************************)
UrlString(u) == u.scheme \o "://" \o u.netloc \o u.path

\* fetcher_v1.py:132-143
NewRecord(u) ==
    [url |-> UrlString(u), url_final |-> None, host |-> u.netloc,
     status_code |-> None, html_crudo_path |-> None, error |-> None,
     rl_wait_s_total |-> 0, retries |-> 0, last_backoff_s |-> 0]

\* fetcher_v1.py:165-170  the path the page is saved at
RawPath(u) == "data/raw_pages/" \o u.netloc \o "/today/pid.html"

\* fetcher_v1.py:127-176
fetch_and_save(u, robots_ok, resp, network_error) ==
    LET r0 == NewRecord(u)
    IN  IF ~robots_ok
        THEN [r0 EXCEPT !.error = Some("robots_disallow")]
        ELSE IF resp = None
        THEN [r0 EXCEPT !.error = Some("network:" \o network_error)]
        ELSE LET r == The(resp)
                 r1 == [r0 EXCEPT !.url_final = Some(UrlString(u)),
                                  !.status_code = Some(r.status_code)]
             IN  IF r.status_code # 200
                 THEN [r1 EXCEPT
                          !.error = Some("http_" \o ToString(r.status_code))]
                 ELSE IF ~r.html
                 THEN [r1 EXCEPT !.error = Some("non_html")]
                 ELSE [r1 EXCEPT !.html_crudo_path = Some(RawPath(u))]

HttpStatuses == {200, 404, 429, 499, 500, 503, 599, 600}
Responses == {None} \cup {Some([status_code |-> st, html |-> h]) :
                             st \in HttpStatuses, h \in BOOLEAN}
\* every record fetch_and_save can return for URL u
FetcherRecords(u) ==
    {fetch_and_save(u, ok, resp, "ReadTimeout") :
        ok \in BOOLEAN, resp \in Responses}

\* records of other fetch functions (test doubles): any combination of the
\* three fields the wrapper reads
StubRecords(u) ==
    {[NewRecord(u) EXCEPT !.status_code = st, !.html_crudo_path = hp,
                          !.error = er] :
        st \in {None, Some(200), Some(503)},
        hp \in {None, Some("p")},
        er \in {None, Some(""), Some("network:ConnectError")}}

(***************************************************************************)
(* indexing/crawler/rate_limit_backoff.py.  Time is counted in ticks of    *)
(* half a second, so 1.0 s is 2 ticks.                                     *)
(***************************************************************************)
DEFAULT_MIN_INTERVAL_S == 2
DEFAULT_MAX_RETRIES == 3
DEFAULT_BACKOFF_BASE_S == 2

UPPERCASE == "ABCDEFGHIJKLMNOPQRSTUVWXYZ"
LOWERCASE == "abcdefghijklmnopqrstuvwxyz"
LowerChar(c) ==
    IF \E i \in 1..26 : SubSeq(UPPERCASE, i, i) = c
    THEN LET i == CHOOSE i \in 1..26 : SubSeq(UPPERCASE, i, i) = c
         IN  SubSeq(LOWERCASE, i, i)
    ELSE c
RECURSIVE Lower(_)
Lower(s) ==
    IF Len(s) = 0 THEN ""
    ELSE LowerChar(SubSeq(s, 1, 1)) \o Lower(SubSeq(s, 2, Len(s)))

(***************************************************************************)
(* Strings and urllib.parse (CPython 3.11), as far as the crawler's URL    *)
(* functions use them.  Positions are 1-based; 0 means not found.  The     *)
(* strings are ASCII without brackets, control characters or a backquote,  *)
(* and a percent escape denotes a printable ASCII character.               *)
(***************************************************************************)
At(s, i) == SubSeq(s, i, i)
\* s[:k]
Prefix(s, k) == SubSeq(s, 1, IF k < Len(s) THEN k ELSE Len(s))
RECURSIVE FindFrom(_, _, _)
FindFrom(s, c, i) ==
    IF i > Len(s) THEN 0
    ELSE IF At(s, i) = c THEN i ELSE FindFrom(s, c, i + 1)
\* s.find(c) for a one-character c
Find(s, c) == FindFrom(s, c, 1)
\* p in s
Contains(s, p) ==
    \E i \in 1..(Len(s) - Len(p) + 1) : SubSeq(s, i, i + Len(p) - 1) = p
\* s.endswith(p)
EndsWith(s, p) ==
    Len(s) >= Len(p) /\ SubSeq(s, Len(s) - Len(p) + 1, Len(s)) = p
\* s.split(sep) for a one-character sep
RECURSIVE Split(_, _)
Split(s, sep) ==
    LET i == Find(s, sep)
    IN  IF i = 0 THEN <<s>>
        ELSE <<SubSeq(s, 1, i - 1)>> \o Split(SubSeq(s, i + 1, Len(s)), sep)
\* s.split(sep, 1)
Split1(s, sep) ==
    LET i == Find(s, sep)
    IN  IF i = 0 THEN <<s>>
        ELSE <<SubSeq(s, 1, i - 1), SubSeq(s, i + 1, Len(s))>>
\* s.rsplit("/", 1)[-1]
RECURSIVE LastSegment(_)
LastSegment(s) ==
    LET i == Find(s, "/")
    IN  IF i = 0 THEN s ELSE LastSegment(SubSeq(s, i + 1, Len(s)))
\* s.replace(c, "") for a one-character c
RECURSIVE Remove(_, _)
Remove(s, c) ==
    IF s = "" THEN ""
    ELSE (IF At(s, 1) = c THEN "" ELSE At(s, 1))
             \o Remove(SubSeq(s, 2, Len(s)), c)

DIGITS == "0123456789"
IsAlpha(c) == Find(UPPERCASE, c) # 0 \/ Find(LOWERCASE, c) # 0
IsAlnum(c) == IsAlpha(c) \/ Find(DIGITS, c) # 0
\* the characters 0x20..0x5F and 0x61..0x7E in code order
ASCII_LO ==
    " !\"#$%&'()*+,-./0123456789:;<=>?@ABCDEFGHIJKLMNOPQRSTUVWXYZ[\\]^_"
ASCII_HI == "abcdefghijklmnopqrstuvwxyz{|}~"
Ord(c) ==
    IF Find(ASCII_LO, c) # 0 THEN 31 + Find(ASCII_LO, c)
    ELSE 96 + Find(ASCII_HI, c)
Chr(n) == IF n < 96 THEN At(ASCII_LO, n - 31) ELSE At(ASCII_HI, n - 96)
HEXDIGITS == "0123456789ABCDEF"
IsHex(c) == Len(c) = 1 /\ (Find(HEXDIGITS, c) # 0 \/ Find("abcdef", c) # 0)
HexVal(c) ==
    IF Find(HEXDIGITS, c) # 0 THEN Find(HEXDIGITS, c) - 1
    ELSE 9 + Find("abcdef", c)
HexByte(n) == "%" \o At(HEXDIGITS, (n \div 16) + 1) \o At(HEXDIGITS, (n % 16) + 1)

\* urllib/parse.py unquote: each %XX with two hex digits becomes the
\* character of that code; any other % is kept
RECURSIVE unquote(_)
unquote(s) ==
    IF s = "" THEN ""
    ELSE IF At(s, 1) = "%" /\ Len(s) >= 3 /\ IsHex(At(s, 2)) /\ IsHex(At(s, 3))
    THEN Chr(16 * HexVal(At(s, 2)) + HexVal(At(s, 3)))
             \o unquote(SubSeq(s, 4, Len(s)))
    ELSE At(s, 1) \o unquote(SubSeq(s, 2, Len(s)))

\* urllib/parse.py quote(s) with safe="/": letters, digits and _.-~/ are
\* kept, every other character becomes %XX
QuoteChar(c) ==
    IF IsAlnum(c) \/ c \in {"_", ".", "-", "~", "/"} THEN c
    ELSE HexByte(Ord(c))
RECURSIVE quote(_)
quote(s) ==
    IF s = "" THEN ""
    ELSE QuoteChar(At(s, 1)) \o quote(SubSeq(s, 2, Len(s)))

\* urllib/parse.py:82
SCHEME_CHARS ==
    "abcdefghijklmnopqrstuvwxyzABCDEFGHIJKLMNOPQRSTUVWXYZ0123456789+-."
\* urllib/parse.py:58
USES_NETLOC ==
    {"", "ftp", "http", "gopher", "nntp", "telnet", "imap", "wais", "file",
     "mms", "https", "shttp", "snews", "prospero", "rtsp", "rtsps", "rtspu",
     "rsync", "svn", "svn+ssh", "sftp", "nfs", "git", "git+ssh", "ws", "wss"}

\* urllib/parse.py:477-481  leading blanks stripped; tab, CR, LF removed
UrlCleaned(u) == Remove(Remove(Remove(LStrip(u), "\t"), "\r"), "\n")
\* urllib/parse.py:486-492
SplitScheme(u) ==
    LET i == Find(u, ":")
    IN  IF /\ i > 1
           /\ IsAlpha(At(u, 1))
           /\ \A j \in 1..(i - 1) : Find(SCHEME_CHARS, At(u, j)) # 0
        THEN [scheme |-> Lower(SubSeq(u, 1, i - 1)),
              rest |-> SubSeq(u, i + 1, Len(u))]
        ELSE [scheme |-> "", rest |-> u]
\* the smallest of the non-zero positions, Len(s) + 1 if there is none
FirstDelim(s, ps) ==
    LET found == {q \in ps : q # 0}
    IN  IF found = {} THEN Len(s) + 1
        ELSE CHOOSE q \in found : \A r \in found : q <= r
\* urllib/parse.py:493-494, 413-419
SplitNetloc(rest) ==
    IF Prefix(rest, 2) = "//"
    THEN LET d == FirstDelim(rest, {FindFrom(rest, "/", 3),
                                    FindFrom(rest, "?", 3),
                                    FindFrom(rest, "#", 3)})
         IN  [netloc |-> SubSeq(rest, 3, d - 1),
              rest |-> SubSeq(rest, d, Len(rest))]
    ELSE [netloc |-> "", rest |-> rest]
\* urllib/parse.py:507  SplitResult: f is the rest cut at the first "#", q
\* its first piece cut at the first "?"
SplitResult(scheme, netloc, f, q) ==
    [scheme |-> scheme,
     netloc |-> netloc,
     path |-> q[1],
     query |-> IF Len(q) = 2 THEN q[2] ELSE "",
     fragment |-> IF Len(f) = 2 THEN f[2] ELSE ""]
\* urllib/parse.py:503-504
SplitQuery(scheme, netloc, f) ==
    SplitResult(scheme, netloc, f, Split1(f[1], "?"))
\* urllib/parse.py:501-502
SplitFragment(scheme, n) == SplitQuery(scheme, n.netloc, Split1(n.rest, "#"))
\* urllib/parse.py:493-494
SplitAfterScheme(s) == SplitFragment(s.scheme, SplitNetloc(s.rest))
\* urllib/parse.py:453-507
urlsplit(u) == SplitAfterScheme(SplitScheme(UrlCleaned(u)))

\* urllib/parse.py:520-537
urlunsplit(scheme, netloc, path, query, fragment) ==
    LET u1 == IF \/ netloc # ""
                 \/ /\ scheme # ""
                    /\ scheme \in USES_NETLOC
                    /\ Prefix(path, 2) # "//"
              THEN "//" \o netloc
                       \o (IF path # "" /\ At(path, 1) # "/"
                           THEN "/" \o path ELSE path)
              ELSE path
        u2 == IF scheme # "" THEN scheme \o ":" \o u1 ELSE u1
        u3 == IF query # "" THEN u2 \o "?" \o query ELSE u2
    IN  IF fragment # "" THEN u3 \o "#" \o fragment ELSE u3

(***************************************************************************)
(* indexing/crawler/seeds_loader.py                                        *)
(***************************************************************************)
\* seeds_loader.py:27
TRACKING_PARAMS ==
    {"utm_source", "utm_medium", "utm_campaign", "utm_term", "utm_content",
     "fbclid", "gclid", "ref"}

\* seeds_loader.py:36-42  the query items kept
KeptItem(kv) == kv # "" /\ Split1(kv, "=")[1] \notin TRACKING_PARAMS

\* seeds_loader.py:31-44
StripTrackingParts(parts) ==
    urlunsplit(parts.scheme, parts.netloc, parts.path,
               IF parts.query # ""
               THEN JoinWith(SelectSeq(Split(parts.query, "&"), KeptItem),
                             "&")
               ELSE parts.query,
               parts.fragment)
strip_tracking(u) == StripTrackingParts(urlsplit(u))

\* seeds_loader.py:47-62  normalize_url(raw) with no base
\* seeds_loader.py:59-60  the path after quote(unquote(path)), with the
\* slash added
WithSlash(quoted) ==
    IF ~Contains(LastSegment(quoted), ".") /\ ~EndsWith(quoted, "/")
    THEN quoted \o "/" ELSE quoted
\* seeds_loader.py:53-62
NormalizeParts(parts) ==
    strip_tracking(
        urlunsplit(IF parts.scheme \in {"http", "https"} THEN "https"
                   ELSE parts.scheme,
                   Lower(parts.netloc),
                   WithSlash(quote(unquote(parts.path))),
                   parts.query, ""))
normalize_url(raw) == NormalizeParts(urlsplit(raw))

NormIdle == nraw = "" /\ nonce = {} /\ ntwice = {}

\* normalize_url(raw)
CallNormalize ==
    /\ nonce = {}
    /\ nonce' = {normalize_url(nraw)}
    /\ UNCHANGED <<nraw, ntwice>>

\* normalize_url applied to the result of the first call
CallNormalizeAgain ==
    /\ nonce # {} /\ ntwice = {}
    /\ ntwice' = {normalize_url(The(nonce))}
    /\ UNCHANGED <<nraw, nonce>>

(***************************************************************************)
(* indexing/crawler/filters.py                                             *)
(***************************************************************************)
\* filters.py:14-18
ALLOWED_HOSTS ==
    {"python.langchain.com", "docs.langchain.com", "langchain-ai.github.io"}
\* filters.py:21-27
DENY_EXTENSIONS ==
    {".pdf", ".png", ".jpg", ".jpeg", ".svg", ".gif", ".ico", ".css", ".js",
     ".map", ".ttf", ".otf", ".woff", ".woff2", ".mp4", ".webm", ".mp3",
     ".zip", ".tar", ".gz", ".tgz"}
\* filters.py:30-33
NOISE_PATH_PARTS ==
    {"/search", "/sitemap", "/feed", "/tags", "/category", "/print",
     "/assets/", "/static/", "/_next/", "/__data/"}
\* filters.py:36-49, and () for a host without an entry (line 94)
ALLOW_PREFIXES_BY_HOST(host) ==
    CASE host = "python.langchain.com" ->
             <<"/docs/concepts/", "/docs/how_to/", "/docs/tutorials/",
               "/api_reference/">>
      [] host = "docs.langchain.com" -> <<"/langsmith/">>
      [] host = "langchain-ai.github.io" -> <<"/langgraph/">>
      [] OTHER -> <<>>

\* filters.py:55-67
_has_denied_extension(path) ==
    LET last == Lower(LastSegment(path))
    IN  Contains(last, ".") /\ \E ext \in DENY_EXTENSIONS : EndsWith(last, ext)

\* filters.py:70-86
_is_noise_path(path, query) ==
    \/ \E part \in NOISE_PATH_PARTS : Contains(path, part)
    \/ Contains(Lower(query), "q=")

\* pref.strip("/")
RECURSIVE StripSlashes(_)
StripSlashes(s) ==
    IF s # "" /\ At(s, 1) = "/" THEN StripSlashes(SubSeq(s, 2, Len(s)))
    ELSE IF s # "" /\ At(s, Len(s)) = "/"
    THEN StripSlashes(SubSeq(s, 1, Len(s) - 1))
    ELSE s

\* filters.py:89-101
_is_allowed_section(host, path) ==
    LET prefixes == ALLOW_PREFIXES_BY_HOST(host)
        hits == {i \in 1..Len(prefixes) : StartsWith(path, prefixes[i])}
    IN  IF hits # {}
        THEN LET pref == prefixes[CHOOSE i \in hits : \A j \in hits : i <= j]
                 last == LastSegment(StripSlashes(pref))
             IN  [ok |-> TRUE,
                  reason |-> "ALLOW:" \o (IF last # "" THEN last ELSE pref)]
        ELSE [ok |-> FALSE, reason |-> "DENY:outside-scope"]

\* Variant: the noise rule is tried before the extension rule.
allow_NoiseFirst(u) ==
    LET parts == urlsplit(u)
        host == Lower(parts.netloc)
        path == IF parts.path # "" THEN parts.path ELSE "/"
        query == parts.query
    IN  IF host \notin ALLOWED_HOSTS
        THEN [ok |-> FALSE, reason |-> "DENY:host"]
        ELSE IF _is_noise_path(path, query)
        THEN [ok |-> FALSE, reason |-> "DENY:noise"]
        ELSE IF _has_denied_extension(path)
        THEN [ok |-> FALSE, reason |-> "DENY:asset"]
        ELSE _is_allowed_section(host, path)

\* filters.py:107-141
allow(u) ==
    LET parts == urlsplit(u)
        host == Lower(parts.netloc)
        path == IF parts.path # "" THEN parts.path ELSE "/"
        query == parts.query
    IN  IF host \notin ALLOWED_HOSTS
        THEN [ok |-> FALSE, reason |-> "DENY:host"]
        ELSE IF _has_denied_extension(path)
        THEN [ok |-> FALSE, reason |-> "DENY:asset"]
        ELSE IF _is_noise_path(path, query)
        THEN [ok |-> FALSE, reason |-> "DENY:noise"]
        ELSE _is_allowed_section(host, path)

Allowed(u) == allow(u).ok

\* filters.py:144-166
filters(urls) ==
    [allowed |-> SelectSeq(urls, Allowed),
     report |-> [i \in 1..Len(urls) |->
                    [url |-> urls[i],
                     decision |-> IF allow(urls[i]).ok THEN "ALLOW"
                                  ELSE "DENY",
                     reason |-> allow(urls[i]).reason]]]

FilterIdle == furls = <<>> /\ fresult = {}

CallFilters ==
    /\ fresult = {}
    /\ fresult' = {filters(furls)}
    /\ UNCHANGED furls


\* rate_limit_backoff.py:26-31
host_from_url(u) == Lower(u.netloc)

Max(a, b) == IF a >= b THEN a ELSE b

\* rate_limit_backoff.py:40-42  seconds _rate_limit_wait sleeps
RateLimitDelay(host, interval) ==
    LET last == IF host \in DOMAIN LAST_HIT_PER_HOST
                THEN LAST_HIT_PER_HOST[host] ELSE 0
        elapsed == now - last
    IN  Max(0, interval - elapsed)

\* rate_limit_backoff.py:61-65  the jitter factor uniform(0.5, 1.5) is
\* jitter2 / 2 with jitter2 in {1, 2, 3}
backoff_delay_s(att, base_s, jitter2) == (base_s * (2 ^ att) * jitter2) \div 2

\* rate_limit_backoff.py:82-83
CleanSuccess(r) == r.status_code = Some(200) /\ Truthy(r.html_crudo_path)

\* Variant: every status from 400 up is retried.
should_retry_Any4xx(r) ==
    LET status == r.status_code
        error == IF r.error = None THEN "" ELSE The(r.error)
    IN  IF r.status_code = Some(200) /\ Truthy(r.html_crudo_path) THEN FALSE
        ELSE IF \E st \in status : 400 <= st /\ st <= 599 THEN TRUE
        ELSE IF StartsWith(error, "network:") THEN TRUE
        ELSE FALSE

\* rate_limit_backoff.py:68-98
should_retry(r) ==
    LET status == r.status_code
        error == IF r.error = None THEN "" ELSE The(r.error)
    IN  IF CleanSuccess(r) THEN FALSE
        ELSE IF status = Some(429) THEN TRUE
        ELSE IF \E st \in status : 500 <= st /\ st <= 599 THEN TRUE
        ELSE IF StartsWith(error, "network:") THEN TRUE
        ELSE FALSE

\* Variant: `attempt > max_retries`.
BudgetExhausted_Strict(att, maxr) == att > maxr

\* rate_limit_backoff.py:151  the retry budget is used up
BudgetExhausted(att, maxr) == att >= maxr

\* rate_limit_backoff.py:153-155  mark the record when the budget is used up
MarkExhausted(r, maxr) ==
    IF ~Truthy(r.error)
    THEN [r EXCEPT !.error = Some("retry_exhausted_after_" \o ToString(maxr))]
    ELSE r

\* rate_limit_backoff.py:164-166  diagnostic fields; a tick is a multiple of
\* 0.001 s, so round(x, 3) leaves a tick count as it is
Annotate(r, rl, att, bo) ==
    [r EXCEPT !.rl_wait_s_total = rl, !.retries = att, !.last_backoff_s = bo]

FetchUrls ==
    { [scheme |-> "https", netloc |-> "A.COM", path |-> "/x"],
      [scheme |-> "https", netloc |-> "b.com", path |-> "/y"] }

FetchIdle ==
    /\ fpc = "idle" /\ max_retries = 0 /\ min_interval_s = 0
    /\ url = [scheme |-> "", netloc |-> "", path |-> ""]
    /\ attempt = 0 /\ rec = {} /\ total_rl_wait = 0 /\ last_backoff = 0
    /\ now = 0 /\ LAST_HIT_PER_HOST = <<>>
    /\ fcalls = 0 /\ fsleeps = 0 /\ allRetryable = TRUE
    /\ wcalls = 0 /\ waitedHost = {} /\ unwaited = FALSE
    /\ issued = <<>> /\ lastGap = {}

\* Variant: the last hit is the time read before the sleep.
HitTime_BeforeSleep(t, wait_s) == t

\* rate_limit_backoff.py:44-46  time.monotonic() once the sleep is over
HitTime(t, wait_s) == t + wait_s

\* rate_limit_backoff.py:33-47, 140-141  _rate_limit_wait and its total
RateLimitWait ==
    /\ fpc = "rl_wait"
    /\ LET host == host_from_url(url)
           wait_s == RateLimitDelay(host, min_interval_s)
       IN  /\ now' = now + wait_s
           /\ LAST_HIT_PER_HOST' =
                  [h \in DOMAIN LAST_HIT_PER_HOST \cup {host} |->
                      IF h = host THEN HitTime(now, wait_s)
                      ELSE LAST_HIT_PER_HOST[h]]
           /\ total_rl_wait' = total_rl_wait + wait_s
           /\ waitedHost' = {host}
    /\ fpc' = "fetch"
    /\ UNCHANGED <<max_retries, min_interval_s, url, attempt, rec,
                   last_backoff, fcalls, fsleeps, allRetryable, wcalls,
                   unwaited, issued, lastGap>>

\* rate_limit_backoff.py:144-156, 164-168  fetch_fn returns r: leave the
\* loop (annotated record), or go on to the backoff sleep
FetchCall(r) ==
    /\ fpc = "fetch"
    /\ fcalls' = fcalls + 1
    /\ allRetryable' = (allRetryable /\ should_retry(r))
    /\ LET host == host_from_url(url)
       IN  /\ unwaited' = (unwaited \/ waitedHost # {host})
           /\ lastGap' = IF host \in DOMAIN issued
                         THEN {[gap |-> now - issued[host],
                                interval |-> min_interval_s]}
                         ELSE {}
           /\ issued' = [h \in DOMAIN issued \cup {host} |->
                            IF h = host THEN now ELSE issued[h]]
    /\ waitedHost' = {}
    /\ IF ~should_retry(r)
       THEN /\ rec' = {Annotate(r, total_rl_wait, attempt, last_backoff)}
            /\ fpc' = "done"
       ELSE IF BudgetExhausted(attempt, max_retries)
       THEN /\ rec' = {Annotate(MarkExhausted(r, max_retries),
                                total_rl_wait, attempt, last_backoff)}
            /\ fpc' = "done"
       ELSE /\ rec' = {r}
            /\ fpc' = "backoff"
    /\ UNCHANGED <<max_retries, min_interval_s, url, attempt, total_rl_wait,
                   last_backoff, now, LAST_HIT_PER_HOST, fsleeps, wcalls>>

\* rate_limit_backoff.py:159-161  the backoff sleep before the next attempt
Backoff(jitter2) ==
    /\ fpc = "backoff"
    /\ LET d == backoff_delay_s(attempt, DEFAULT_BACKOFF_BASE_S, jitter2)
       IN  /\ last_backoff' = d
           /\ now' = now + d
    /\ attempt' = attempt + 1
    /\ fsleeps' = fsleeps + 1
    /\ fpc' = "rl_wait"
    /\ UNCHANGED <<max_retries, min_interval_s, url, rec, total_rl_wait,
                   LAST_HIT_PER_HOST, fcalls, allRetryable, wcalls,
                   waitedHost, unwaited, issued, lastGap>>

\* The caller's next call of the wrapper, once the previous one returned
\* (rate_limit_backoff.py:104-136: arguments, host, counters reset).
NewCall(u, maxr, interval) ==
    /\ fpc = "done"
    /\ wcalls < MaxWrapperCalls
    /\ wcalls' = wcalls + 1
    /\ url' = u /\ max_retries' = maxr /\ min_interval_s' = interval
    /\ attempt' = 0 /\ rec' = {} /\ total_rl_wait' = 0 /\ last_backoff' = 0
    /\ fcalls' = 0 /\ fsleeps' = 0 /\ allRetryable' = TRUE
    /\ fpc' = "rl_wait"
    /\ UNCHANGED <<now, LAST_HIT_PER_HOST, waitedHost, unwaited, issued,
                   lastGap>>

\* Time passing while fetch_fn runs, while a sleep overruns, or between two
\* calls of the wrapper.  No time passes between the return of
\* _rate_limit_wait and the call of fetch_fn (rate_limit_backoff.py:140-144).
Tick ==
    /\ fpc \in {"rl_wait", "backoff", "done"}
    /\ now < MaxClock
    /\ now' = now + 1
    /\ UNCHANGED <<fpc, max_retries, min_interval_s, url, attempt, rec,
                   total_rl_wait, last_backoff, LAST_HIT_PER_HOST, fcalls,
                   fsleeps, allRetryable, wcalls, waitedHost, unwaited,
                   issued, lastGap>>

(***************************************************************************)
(* indexing/indexer/embedder.py _embed_batch.  Sleeps are in seconds.      *)
(* A text is an optional string: {} stands for a value that is not a str.  *)
(* The vector the provider returns for a text on its k-th call is the      *)
(* record [text, call].                                                    *)
(***************************************************************************)
EMBED_MAX_RETRIES == 5
EMBED_BACKOFF_S == 1

\* embedder.py:61
Clean(texts) ==
    [i \in 1..Len(texts) |-> IF texts[i] = None THEN "" ELSE The(texts[i])]

\* embedder.py:67-72  the provider's answer to its k-th call
ProviderVectors(texts, k) ==
    [i \in 1..Len(texts) |-> [text |-> Clean(texts)[i], call |-> k]]

EmbedTexts == {None, Some("t1"), Some("t2")}
ProviderErrors == {"RateLimitError", "APIConnectionError"}

EmbedIdle ==
    /\ epc = "idle" /\ etexts = <<>> /\ eattempt = 0 /\ ebackoff = 0
    /\ ecalls = 0 /\ esleeps = <<>> /\ eresult = {}

\* embedder.py:63-65  entry of _embed_batch
EmbedStart ==
    /\ epc = "call" /\ eattempt = 1 /\ ebackoff = EMBED_BACKOFF_S
    /\ ecalls = 0 /\ esleeps = <<>> /\ eresult = {}

\* embedder.py:66-72  the provider call succeeds
EmbedCallOk ==
    /\ epc = "call"
    /\ ecalls' = ecalls + 1
    /\ eresult' = {[kind |-> "return",
                    value |-> ProviderVectors(etexts, ecalls + 1)]}
    /\ epc' = "returned"
    /\ UNCHANGED <<etexts, eattempt, ebackoff, esleeps>>

\* embedder.py:73-82  the provider call raises exc
EmbedCallFail(exc) ==
    /\ epc = "call"
    /\ ecalls' = ecalls + 1
    /\ IF eattempt = EMBED_MAX_RETRIES
       THEN /\ eresult' = {[kind |-> "raise", value |-> exc]}
            /\ epc' = "raised"
       ELSE /\ eresult' = eresult
            /\ epc' = "sleep"
    /\ UNCHANGED <<etexts, eattempt, ebackoff, esleeps>>

\* embedder.py:82-83, 65  sleep, double the backoff, next attempt
EmbedSleep ==
    /\ epc = "sleep"
    /\ esleeps' = Append(esleeps, ebackoff)
    /\ ebackoff' = ebackoff * 2
    /\ eattempt' = eattempt + 1
    /\ epc' = "call"
    /\ UNCHANGED <<etexts, ecalls, eresult>>

(***************************************************************************)
(* indexing/indexer/pinecone_client.py upsert.  Delays are in tenths of a  *)
(* second.  An item is a record; a key the dict lacks is a field the       *)
(* record lacks.  Field values are typed: [type, value].                   *)
(***************************************************************************)
PyStr(v) == [type |-> "str", value |-> v]
PyList(v) == [type |-> "list", value |-> v]
PyDict(v) == [type |-> "dict", value |-> v]
PyNone == [type |-> "NoneType", value |-> ""]

UPSERT_MIN_DELAY == 1

\* pinecone_client.py:107-121  the error raised by validation, or {}
UpsertValidationError(items) ==
    IF Len(items) = 0 THEN {"upsert: 'items' no puede estar vacio."}
    ELSE LET Bad(it) ==
                 IF ~({"id", "vector"} \subseteq DOMAIN it)
                 THEN {"Cada item debe tener 'id' y 'vector'."}
                 ELSE IF it.id.type # "str"
                 THEN {"El 'id' debe ser str."}
                 ELSE IF it.vector.type # "list"
                 THEN {"'vector' debe ser una lista de floats."}
                 ELSE IF "metadata" \in DOMAIN it /\ it.metadata.type # "dict"
                 THEN {"'metadata' (si esta) debe ser dict JSON-serializable."}
                 ELSE {}
             bad == {i \in 1..Len(items) : Bad(items[i]) # {}}
         IN  IF bad = {} THEN {}
             ELSE Bad(items[CHOOSE i \in bad : \A j \in bad : i <= j])

\* Variant: the loop runs while attempt < max_retries.
UpsertLoopGuard_Strict(att, maxr) == att < maxr

\* pinecone_client.py:130  `while attempt <= max_retries`
UpsertLoopGuard(att, maxr) == att <= maxr

\* pinecone_client.py:126
UpsertFirstDelay(initial_backoff_s) == Max(UPSERT_MIN_DELAY, initial_backoff_s)

UpsertErrors == {"PineconeApiException", "ConnectionError"}

UpsertIdle ==
    /\ upc = "idle" /\ uitems = <<>> /\ umax_retries = 0
    /\ uinitial_backoff_s = 0 /\ udelay = 0 /\ uattempt = 0
    /\ ulast_exc = {} /\ ucallLog = <<>> /\ usleeps = <<>> /\ uresult = {}

\* entry of upsert, before validation
UpsertEntry ==
    /\ upc = "start" /\ udelay = 0 /\ uattempt = 0
    /\ ulast_exc = {} /\ ucallLog = <<>> /\ usleeps = <<>> /\ uresult = {}

\* pinecone_client.py:107-128  validation and the loop's initial state
UpsertStart ==
    /\ upc = "start"
    /\ LET err == UpsertValidationError(uitems)
       IN  IF err # {}
           THEN /\ uresult' = {[kind |-> "raise",
                                value |-> "ValueError: " \o The(err)]}
                /\ upc' = "invalid"
                /\ UNCHANGED <<udelay, uattempt, ulast_exc>>
           ELSE /\ udelay' = UpsertFirstDelay(uinitial_backoff_s)
                /\ uattempt' = 0
                /\ ulast_exc' = {}
                /\ uresult' = uresult
                /\ upc' = "loop"
    /\ UNCHANGED <<uitems, umax_retries, uinitial_backoff_s, ucallLog,
                   usleeps>>

\* pinecone_client.py:130, 150-152  the loop test; after the loop, the last
\* exception is raised (an AssertionError if there is none)
UpsertLoopTest ==
    /\ upc = "loop"
    /\ IF UpsertLoopGuard(uattempt, umax_retries)
       THEN upc' = "call" /\ uresult' = uresult
       ELSE /\ upc' = "raised"
            /\ uresult' = {[kind |-> "raise",
                            value |-> IF ulast_exc = {} THEN "AssertionError"
                                      ELSE The(ulast_exc)]}
    /\ UNCHANGED <<uitems, umax_retries, uinitial_backoff_s, udelay,
                   uattempt, ulast_exc, ucallLog, usleeps>>

\* pinecone_client.py:131-136  index.upsert succeeds
UpsertCallOk ==
    /\ upc = "call"
    /\ ucallLog' = Append(ucallLog, "ok")
    /\ uresult' = {[kind |-> "return", value |-> Len(uitems)]}
    /\ upc' = "returned"
    /\ UNCHANGED <<uitems, umax_retries, uinitial_backoff_s, udelay,
                   uattempt, ulast_exc, usleeps>>

\* pinecone_client.py:137-142, 150-152  index.upsert raises exc
UpsertCallFail(exc) ==
    /\ upc = "call"
    /\ ucallLog' = Append(ucallLog, exc)
    /\ ulast_exc' = {exc}
    /\ uattempt' = uattempt + 1
    /\ IF uattempt + 1 > umax_retries
       THEN /\ upc' = "raised"
            /\ uresult' = {[kind |-> "raise", value |-> exc]}
       ELSE /\ upc' = "sleep"
            /\ uresult' = uresult
    /\ UNCHANGED <<uitems, umax_retries, uinitial_backoff_s, udelay,
                   usleeps>>

\* pinecone_client.py:147-148
UpsertSleep ==
    /\ upc = "sleep"
    /\ usleeps' = Append(usleeps, udelay)
    /\ udelay' = udelay * 2
    /\ upc' = "loop"
    /\ UNCHANGED <<uitems, umax_retries, uinitial_backoff_s, uattempt,
                   ulast_exc, ucallLog, uresult>>

(***************************************************************************)
(* indexing/crawler/crawler.py Crawler.run: the fetch with retries of one  *)
(* dequeued URL (lines 274-286).                                           *)
(***************************************************************************)
\* Variant: the retry does not advance the attempt.
CrawlNextAttempt_Same(att) == att

\* crawler.py:276  the next value of `attempt` from range(retries + 1)
CrawlNextAttempt(att) == att + 1

\* The histories klog and ksleeps of one fetch loop keep its first MaxLog
\* entries, one more than the longest loop of range(retries + 1) makes.
MaxLog == MaxCrawlRetries + 2
Logged(log, x) == IF Len(log) < MaxLog THEN Append(log, x) ELSE log

\* crawler.py:181-191  run has not been called: the state after
\* Crawler.__init__
RunIdle ==
    /\ rpc = "idle" /\ rseeds = <<>> /\ rmax_depth = 0
    /\ rqueue = <<>> /\ rcur = {} /\ rvisited = {} /\ rsaved = <<>>
    /\ rindex = <<>>
    /\ rtotals = [downloaded |-> 0, skipped |-> 0, failed |-> 0]
    /\ rrobots = <<>> /\ rhost_rate = <<>> /\ rinterval = 0 /\ rlatency = 0
    /\ rsince = <<>> /\ rlast_gap = {}
    /\ rrobots_gets = <<>> /\ rgets = {}
    /\ renqueued = <<>> /\ rdequeued = <<>>

CrawlIdle ==
    /\ kpc = "idle" /\ kretries = 0 /\ kattempt = 0 /\ kresp = {}
    /\ klog = <<>> /\ ksleeps = <<>>
    /\ RunIdle

\* crawler.py:275-276  resp = None, first attempt
CrawlStart ==
    /\ kpc = "get" /\ kattempt = 0 /\ kresp = {}
    /\ klog = <<>> /\ ksleeps = <<>>

\* crawler.py:277-279  client.get returns a response
CrawlGetOk(status) ==
    /\ kpc = "get"
    /\ kresp' = {[status_code |-> status]}
    /\ klog' = Logged(klog, ToString(status))
    /\ kpc' = "done"
    /\ UNCHANGED <<kretries, kattempt, ksleeps>>

\* crawler.py:280-286  client.get raises httpx.RequestError
CrawlGetRequestError ==
    /\ kpc = "get"
    /\ kresp' = {}
    /\ klog' = Logged(klog, "RequestError")
    /\ kpc' = IF kattempt < kretries THEN "sleep" ELSE "done"
    /\ UNCHANGED <<kretries, kattempt, ksleeps>>

\* crawler.py:277-280  client.get raises an exception that is not an
\* httpx.RequestError: it leaves run
CrawlGetRaise ==
    /\ kpc = "get"
    /\ klog' = Logged(klog, "Exception")
    /\ kpc' = "raised"
    /\ UNCHANGED <<kretries, kattempt, kresp, ksleeps>>

\* Variant: the same wait before every retry.
CrawlSleepTenths_Flat(att) == 15

\* crawler.py:282  1.5 * (attempt + 1) seconds, in tenths of a second
CrawlSleepTenths(att) == 15 * (att + 1)

\* crawler.py:282-283, 276  sleep 1.5 * (attempt + 1), then the next attempt
CrawlSleep ==
    /\ kpc = "sleep"
    /\ ksleeps' = Logged(ksleeps, CrawlSleepTenths(kattempt))
    /\ kattempt' = CrawlNextAttempt(kattempt)
    /\ kpc' = "get"
    /\ UNCHANGED <<kretries, kresp, klog>>

(***************************************************************************)
(* indexing/crawler/crawler.py: the URL helpers and the queue loop of      *)
(* Crawler.run (216-400) for one seed group.  One step of the loop is one  *)
(* action, but for the fetch, which is the loop above.  Times (host_rate,  *)
(* fetched_at) are left out.  The site crawled is WebPage: it answers a    *)
(* GET of a URL with the same page each time.                              *)
(***************************************************************************)
\* crawler.py:39
ALLOW_TRACKING_PARAMS ==
    {"utm_source", "utm_medium", "utm_campaign", "utm_term", "utm_content",
     "fbclid", "gclid", "ref"}
\* crawler.py:42
DEFAULT_RETRIES == 2
\* crawler.py:43  requests per second and host
DEFAULT_RATE == 1
\* crawler.py:40
CRAWLER_DENY_EXTENSIONS ==
    {".png", ".jpg", ".jpeg", ".svg", ".gif", ".pdf", ".ico", ".webp"}

\* the last position of c in s, 0 if none
RECURSIVE RFind(_, _, _)
RFind(s, c, i) ==
    IF i = 0 THEN 0 ELSE IF At(s, i) = c THEN i ELSE RFind(s, c, i - 1)

\* os.path.splitext(path)[1]: the last component from its last dot on,
\* unless only dots come before it
ExtFrom(name, d) ==
    IF d # 0 /\ \E i \in 1..(d - 1) : At(name, i) # "."
    THEN SubSeq(name, d, Len(name)) ELSE ""
ExtOfName(name) == ExtFrom(name, RFind(name, ".", Len(name)))
splitext_ext(path) == ExtOfName(LastSegment(path))

CrawlerKeptItem(kv) ==
    kv # "" /\ Split1(kv, "=")[1] \notin ALLOW_TRACKING_PARAMS

\* crawler.py:62-76
StripTrackingQueryParts(u, parts) ==
    IF parts.query = "" THEN u
    ELSE urlunsplit(parts.scheme, parts.netloc, parts.path,
                    JoinWith(SelectSeq(Split(parts.query, "&"),
                                       CrawlerKeptItem), "&"),
                    parts.fragment)
strip_tracking_query(u) == StripTrackingQueryParts(u, urlsplit(u))

\* urllib/parse.py urljoin(base, u) for a u that is an absolute URL or a
\* path beginning with one "/"
JoinParts(bparts, u, uparts) ==
    IF uparts.scheme # "" THEN u
    ELSE bparts.scheme \o "://" \o bparts.netloc \o u
urljoin(base, u) == JoinParts(urlsplit(base), u, urlsplit(u))

\* crawler.py:79-99  normalize_url(url, base); base is None or Some(url)
\* crawler.py:95-98  the unquoted path, with the slash added
CrawlerWithSlash(unquoted) ==
    IF splitext_ext(unquoted) = "" /\ ~EndsWith(unquoted, "/")
    THEN unquoted \o "/" ELSE unquoted
\* crawler.py:86-100
CrawlerNormalizeParts(parts) ==
    urlunsplit(IF parts.scheme \in {"http", "https"} THEN "https"
               ELSE parts.scheme,
               Lower(parts.netloc),
               quote(CrawlerWithSlash(unquote(parts.path))),
               parts.query, "")
crawler_normalize_url(u, base) ==
    CrawlerNormalizeParts(
        urlsplit(strip_tracking_query(IF Truthy(base)
                                      THEN urljoin(The(base), u) ELSE u)))

\* crawler.py:102-103
same_host(u1, u2) == urlsplit(u1).netloc = urlsplit(u2).netloc

\* crawler.py:106-109
has_denied_extension(u) ==
    Lower(splitext_ext(urlsplit(u).path)) \in CRAWLER_DENY_EXTENSIONS

\* crawler.py:125-126  SeedGroup.hosts
GroupHosts(urls) == {urlsplit(urls[i]).netloc : i \in 1..Len(urls)}

\* crawler.py:128-135, 251, 360  group.allow_prefixes.get(host, {"/"})
GroupAllowPrefixes(urls, host) ==
    IF host \in GroupHosts(urls)
    THEN {urlsplit(urls[i]).path :
             i \in {j \in 1..Len(urls) : urlsplit(urls[j]).netloc = host}}
    ELSE {"/"}

Page(final_url, ctype, canonical, links) ==
    [final_url |-> final_url, ctype |-> ctype, canonical |-> canonical,
     links |-> links]
HTML == "text/html; charset=utf-8"

\* What the site answers to a GET of u: the URL after redirects, the
\* Content-Type, the href of link rel=canonical if any, and the hrefs of
\* the page's anchors in order.
WebPage(u) ==
    CASE u = "https://s.com/docs/" ->
             Page(u, HTML, None,
                  <<"/docs/a", "/docs/b/#top", "/docs/a?utm_source=x",
                    "/img.png", "https://t.com/docs/", "/blog/", "/docs/r",
                    "/docs/o/", "/docs/p/", "/docs/f.txt">>)
      [] u = "https://s.com/docs/a/" ->
             Page(u, HTML, Some("https://S.com/docs/b"), <<"/docs/">>)
      [] u = "https://s.com/docs/b/" ->
             Page(u, HTML, None, <<"/docs/a", "/docs/c">>)
      [] u = "https://s.com/docs/r/" ->
             Page("https://s.com/docs/b/", HTML, None, <<>>)
      [] u = "https://s.com/docs/o/" ->
             Page(u, HTML, Some("https://t.com/docs/o/"), <<>>)
      [] u = "https://s.com/docs/f.txt" ->
             Page(u, "text/plain", None, <<>>)
      [] OTHER -> Page(u, HTML, None, <<>>)

\* the URLs a crawl of the site can request
WebUrls ==
    {"https://s.com/docs/", "https://s.com/docs/a/", "https://s.com/docs/b/",
     "https://s.com/docs/c/", "https://s.com/docs/r/", "https://s.com/docs/o/",
     "https://s.com/docs/p/", "https://s.com/docs/f.txt",
     "https://s.com/docs/p/x/", "https://t.com/docs/p/"}

\* crawler.py:327-335  the canonical URL of the page a GET of u returns
\* crawler.py:334-335
SameHostCanonica(canon, final_url) ==
    IF ~same_host(canon, final_url)
    THEN crawler_normalize_url(final_url, None)
    ELSE canon
\* crawler.py:329-335
CanonicaOfPage(got) ==
    SameHostCanonica(IF Truthy(got.canonical)
                     THEN crawler_normalize_url(The(got.canonical),
                                                Some(got.final_url))
                     ELSE crawler_normalize_url(got.final_url, None),
                     got.final_url)
UrlCanonica(u) == CanonicaOfPage(WebPage(u))

\* crawler.py:352-353  new_url for each anchor of the page a GET of u
\* returns
NewUrls(u) ==
    [i \in 1..Len(WebPage(u).links) |->
        crawler_normalize_url(WebPage(u).links[i],
                              Some(WebPage(u).final_url))]

\* UrlCanonica and NewUrls, worked out once for each URL of the site
UrlCanonicaOf == [u \in WebUrls |-> UrlCanonica(u)]
NewUrlsOf == [u \in WebUrls |-> NewUrls(u)]

\* The seed lists of the runs, and every URL a queue can hold: the
\* normalized seeds and the links of the site's pages.
CrawlSeedLists ==
    {<<"https://s.com/docs/">>,
     <<"https://s.com/docs/", "http://s.com/docs">>,
     <<"https://s.com/docs/a/", "https://s.com/docs/b/">>,
     <<"https://s.com/docs/p/", "https://t.com/docs/p/",
       "https://s.com/docs/p/x">>}
QueueUrls ==
    WebUrls
    \cup UNION {{crawler_normalize_url(seeds[i], None) : i \in 1..Len(seeds)} :
                   seeds \in CrawlSeedLists}
    \cup UNION {{NewUrlsOf[u][i] : i \in 1..Len(NewUrlsOf[u])} : u \in WebUrls}

\* urlsplit(u).netloc, urlsplit(u).path and has_denied_extension(u), worked
\* out once for each URL; group.hosts and group.allow_prefixes.get(host,
\* {"/"}), worked out once for each seed list
HostOf == [u \in QueueUrls |-> urlsplit(u).netloc]
PathOf == [u \in QueueUrls |-> urlsplit(u).path]
DeniedOf == [u \in QueueUrls |-> has_denied_extension(u)]
GroupHostsOf == [seeds \in CrawlSeedLists |-> GroupHosts(seeds)]
AllowPrefixesOf ==
    [seeds \in CrawlSeedLists |->
        [host \in {HostOf[u] : u \in QueueUrls} |->
            GroupAllowPrefixes(seeds, host)]]

\* crawler.py:251, 360
AllowOk(urls, host, path) ==
    \E pre \in AllowPrefixesOf[urls][host] : StartsWith(path, pre)

\* The robots.txt of every host of the site, when it is served: one rule,
\* for every user agent.
SiteDisallow == {"/docs/p/"}

\* crawler.py:164-171  the rules cached after the GET of robots.txt: those
\* of the file on a 200, allow-all on another status or on an exception
RobotsOutcomes == {"200", "404", "error"}
RobotsRules(robots) == IF robots = "200" THEN "site" ELSE "allow_all"

\* crawler.py:174  RobotFileParser.can_fetch(USER_AGENT, url)
RobotsAllowed(rules, u) ==
    \/ rules = "allow_all"
    \/ ~\E pre \in SiteDisallow : StartsWith(PathOf[u], pre)

\* Variant: the cache is never found to hold the host.
RobotsCached_Never(cache, host) == FALSE

\* crawler.py:161
RobotsCached(cache, host) == host \in DOMAIN cache

\* d[k] = v
Put(d, k, v) == [h \in DOMAIN d \cup {k} |-> IF h = k THEN v ELSE d[h]]

QueueItem(u, depth, parent) == [url |-> u, depth |-> depth, parent |-> parent]

\* The fields of an index.jsonl record that tell the records apart here.
IndexRecord(item, url_canonica, saved, out_links, robots_allowed,
            error_type) ==
    [url_solicitada |-> item.url, url_canonica |-> url_canonica,
     depth |-> item.depth, html_crudo_path |-> saved,
     parent_url |-> item.parent, out_links_count |-> out_links,
     robots_allowed |-> robots_allowed, error_type |-> error_type]

Bump(totals, k) == [totals EXCEPT ![k] = @ + 1]

\* crawler.py:216-227  run is called: totals at zero, the seeds queued
CrawlRun ==
    /\ rpc = "idle"
    /\ rqueue' = [i \in 1..Len(rseeds) |->
                     QueueItem(crawler_normalize_url(rseeds[i], None), 0,
                               None)]
    /\ renqueued' = rqueue'
    /\ rtotals' = [downloaded |-> 0, skipped |-> 0, failed |-> 0]
    /\ rpc' = "loop"
    /\ UNCHANGED <<rseeds, rmax_depth, rcur, rvisited, rsaved, rindex,
                   rrobots, rhost_rate, rinterval, rlatency, rsince,
                   rlast_gap, rrobots_gets, rgets, rdequeued>>
    /\ UNCHANGED <<kpc, kretries, kattempt, kresp, klog, ksleeps>>

\* crawler.py:232-250  the four filters that skip without a record
SkippedByFilter(item, host) ==
    \/ DeniedOf[item.url]
    \/ item.url \in rvisited
    \/ host \notin GroupHostsOf[rseeds]
    \/ ~AllowOk(rseeds, host, PathOf[item.url])

\* d tenths of a second pass
WaitAfter(rate, d) == [h \in DOMAIN rate |-> Max(0, rate[h] - d)]
SinceAfter(since, d) ==
    [h \in DOMAIN since |->
        IF since[h] + d < rinterval THEN since[h] + d ELSE rinterval]

\* crawler.py:198-202  the delay _respect_rate sleeps, d tenths from now
RateDelay(host, d) ==
    IF host \in DOMAIN rhost_rate THEN Max(0, rhost_rate[host] - d) ELSE 0

\* crawler.py:196-204  _respect_rate, called d tenths from now: it sleeps
\* the delay and sets the host's next allowed instant
RespectRate(host, d) ==
    /\ rhost_rate' = Put(WaitAfter(rhost_rate, d + RateDelay(host, d)), host,
                         rinterval)
    /\ rsince' = SinceAfter(rsince, d + RateDelay(host, d))

\* crawler.py:253-275  robots says rules for the host, d tenths from now
AfterRobots(item, host, rules, d) ==
    IF ~RobotsAllowed(rules, item.url)
    THEN /\ rindex' = Append(rindex,
                             IndexRecord(item, item.url, None, 0, FALSE,
                                         Some("robots")))
         /\ rtotals' = Bump(rtotals, "skipped")
         /\ rhost_rate' = WaitAfter(rhost_rate, d)
         /\ rsince' = SinceAfter(rsince, d)
         /\ UNCHANGED <<rpc, rcur, kpc, kattempt, kresp, klog, ksleeps>>
    ELSE /\ RespectRate(host, d)
         /\ rcur' = {item}
         /\ rpc' = "fetch"
         /\ kpc' = "get" /\ kattempt' = 0 /\ kresp' = {}
         /\ klog' = <<>> /\ ksleeps' = <<>>
         /\ UNCHANGED <<rindex, rtotals>>

\* crawler.py:158-174, 253  self.robots.allowed: robots is the outcome of
\* the GET of robots.txt, made if the host is not cached
CheckRobots(item, host, robots) ==
    IF RobotsCached(rrobots, host)
    THEN /\ UNCHANGED <<rrobots, rrobots_gets>>
         /\ AfterRobots(item, host, rrobots[host], 0)
    ELSE /\ rrobots' = Put(rrobots, host, RobotsRules(robots))
         /\ rrobots_gets' = Append(rrobots_gets, host)
         /\ AfterRobots(item, host, RobotsRules(robots), rlatency)

DequeueItem(item, host, robots) ==
    IF SkippedByFilter(item, host)
    THEN /\ rtotals' = Bump(rtotals, "skipped")
         /\ UNCHANGED <<rpc, rcur, rindex, rrobots, rhost_rate, rsince,
                        rrobots_gets, kpc, kattempt, kresp, klog, ksleeps>>
    ELSE CheckRobots(item, host, robots)

\* crawler.py:229-275  an item is dequeued: skipped, or its fetch begins
CrawlDequeue(robots) ==
    /\ rpc = "loop" /\ rqueue # <<>>
    /\ rqueue' = Tail(rqueue)
    /\ rdequeued' = Append(rdequeued, Head(rqueue))
    /\ DequeueItem(Head(rqueue), HostOf[Head(rqueue).url], robots)
    /\ UNCHANGED <<rseeds, rmax_depth, rvisited, rsaved, rinterval, rlatency,
                   rlast_gap, rgets, renqueued, kretries>>

\* crawler.py:278  a GET of the page of host begins now and takes rlatency
PageGetTo(u, host) ==
    /\ rgets' = rgets \cup {u}
    /\ rlast_gap' = IF host \in DOMAIN rsince THEN {rsince[host]} ELSE {}
    /\ rsince' = SinceAfter(Put(rsince, host, 0), rlatency)
    /\ rhost_rate' = WaitAfter(rhost_rate, rlatency)
PageGet ==
    /\ rpc = "fetch"
    /\ PageGetTo(The(rcur).url, HostOf[The(rcur).url])
    /\ UNCHANGED <<rpc, rseeds, rmax_depth, rqueue, rcur, rvisited, rsaved,
                   rindex, rtotals, rrobots, rinterval, rlatency,
                   rrobots_gets, renqueued, rdequeued>>

\* crawler.py:283  asyncio.sleep(1.5 * (attempt + 1)) comes to its end
RetrySlept ==
    /\ rpc = "fetch"
    /\ rsince' = SinceAfter(rsince, CrawlSleepTenths(kattempt))
    /\ rhost_rate' = WaitAfter(rhost_rate, CrawlSleepTenths(kattempt))
    /\ UNCHANGED <<rpc, rseeds, rmax_depth, rqueue, rcur, rvisited, rsaved,
                   rindex, rtotals, rrobots, rinterval, rlatency, rlast_gap,
                   rrobots_gets, rgets, renqueued, rdequeued>>

\* Variant: a canonical URL is never taken as visited.
AlreadyVisited_Never(url_canonica, visited) == FALSE

\* crawler.py:337
AlreadyVisited(url_canonica, visited) == url_canonica \in visited

\* Variant: links are also taken from a page at max_depth.
MayEnqueue_AtMaxDepth(depth, max_depth) == depth <= max_depth

\* crawler.py:351
MayEnqueue(depth, max_depth) == depth < max_depth

\* crawler.py:350-364  the links of the page that are queued, in order
LinksQueued(item, got, url_canonica, visited) ==
    LET new_url == NewUrlsOf[item.url]
        host == HostOf[item.url]
        keep == {i \in 1..Len(new_url) :
                    /\ new_url[i] # ""
                    /\ ~DeniedOf[new_url[i]]
                    /\ HostOf[new_url[i]] = HostOf[got.final_url]
                    /\ AllowOk(rseeds, host, PathOf[new_url[i]])
                    /\ new_url[i] \notin visited}
        Queued[i \in 0..Len(new_url)] ==
            IF i = 0 THEN <<>>
            ELSE IF i \in keep
            THEN Append(Queued[i - 1],
                        QueueItem(new_url[i], item.depth + 1,
                                  Some(url_canonica)))
            ELSE Queued[i - 1]
    IN  IF MayEnqueue(item.depth, rmax_depth) THEN Queued[Len(new_url)]
        ELSE <<>>

\* crawler.py:288-384  the fetch loop has ended: the rest of the iteration
CrawlProcess ==
    /\ rpc = "fetch" /\ kpc = "done"
    /\ LET item == The(rcur)
           got == WebPage(item.url)
           url_canonica == UrlCanonicaOf[item.url]
           links == LinksQueued(item, got, url_canonica,
                                rvisited \cup {url_canonica})
       IN  IF kresp = {}
           THEN /\ rindex' = Append(rindex,
                                    IndexRecord(item, item.url, None, 0, TRUE,
                                                Some("timeout_or_network")))
                /\ rtotals' = Bump(rtotals, "failed")
                /\ UNCHANGED <<rqueue, rvisited, rsaved, renqueued>>
           ELSE IF ~Contains(Lower(got.ctype), "text/html")
           THEN /\ rindex' = Append(rindex,
                                    IndexRecord(item, item.url, None, 0, TRUE,
                                                Some("non_html")))
                /\ rtotals' = Bump(rtotals, "skipped")
                /\ UNCHANGED <<rqueue, rvisited, rsaved, renqueued>>
           ELSE IF AlreadyVisited(url_canonica, rvisited)
           THEN /\ rtotals' = Bump(rtotals, "skipped")
                /\ UNCHANGED <<rqueue, rvisited, rsaved, rindex, renqueued>>
           ELSE /\ rvisited' = rvisited \cup {url_canonica}
                /\ rsaved' = Append(rsaved, url_canonica)
                /\ rqueue' = rqueue \o links
                /\ renqueued' = renqueued \o links
                /\ rindex' = Append(rindex,
                                    IndexRecord(item, url_canonica,
                                                Some(url_canonica),
                                                Len(links), TRUE, None))
                /\ rtotals' = Bump(rtotals, "downloaded")
    /\ rpc' = "loop" /\ rcur' = {}
    /\ kpc' = "idle"
    /\ UNCHANGED <<rseeds, rmax_depth, rrobots, rhost_rate, rinterval,
                   rlatency, rsince, rlast_gap, rrobots_gets, rgets,
                   rdequeued>>
    /\ UNCHANGED <<kretries, kattempt, kresp, klog, ksleeps>>

\* crawler.py:229, 386-400  the queue is empty: the manifest is written
CrawlFinish ==
    /\ rpc = "loop" /\ rqueue = <<>>
    /\ rpc' = "finished"
    /\ UNCHANGED <<rseeds, rmax_depth, rqueue, rcur, rvisited, rsaved,
                   rindex, rtotals, rrobots, rhost_rate, rinterval, rlatency,
                   rsince, rlast_gap, rrobots_gets, rgets, renqueued,
                   rdequeued>>
    /\ UNCHANGED <<kpc, kretries, kattempt, kresp, klog, ksleeps>>

(***************************************************************************)
(* indexing/indexer/ingest_index.py.  A chunk (a JSON object) is a record: *)
(* a key the object lacks is a field the record lacks, and the value of a  *)
(* field is {v} for the string v and {} for null or any value that is not  *)
(* a string.                                                               *)
(***************************************************************************)
\* ingest_index.py:107  the buffer is yielded
BatchFull(buf, batch_size) == Len(buf) > batch_size

\* ingest_index.py:104-111
RECURSIVE BatchLoop(_, _, _, _, _)
BatchLoop(it, i, buf, out, batch_size) ==
    IF i > Len(it)
    THEN IF buf # <<>> THEN Append(out, buf) ELSE out
    ELSE LET b == Append(buf, it[i])
         IN  IF BatchFull(b, batch_size)
             THEN BatchLoop(it, i + 1, <<>>, Append(out, b), batch_size)
             ELSE BatchLoop(it, i + 1, b, out, batch_size)

\* ingest_index.py:99-111
batch_iter(it, batch_size) == BatchLoop(it, 1, <<>>, <<>>, batch_size)

BatchIdle == bstream = <<>> /\ bsize = 0 /\ bout = {}

CallBatchIter ==
    /\ bout = {}
    /\ bout' = {batch_iter(bstream, bsize)}
    /\ UNCHANGED <<bstream, bsize>>

\* ingest_index.py:119-128
META_FIELDS ==
    {"url_final", "url_citable", "title", "section_level", "section_heading",
     "section_anchor", "fetched_at", "has_code"}

\* Values of other Python types.  A float is held as its repr; the elements
\* of a list or tuple are typed values; a dict held as a metadata value is
\* the sequence of its <<key, typed value>> pairs in insertion order.
PyInt(v) == [type |-> "int", value |-> v]
PyFloat(v) == [type |-> "float", value |-> v]
PyBool(v) == [type |-> "bool", value |-> v]
PyTuple(v) == [type |-> "tuple", value |-> v]
PySet(v) == [type |-> "set", value |-> v]

\* the typed value of a chunk field read from JSON: null or a string
PyOf(field) == IF field = None THEN PyNone ELSE PyStr(The(field))

\* ingest_index.py:131-137
to_metadata(chunk) ==
    [k \in META_FIELDS \cap DOMAIN chunk |-> PyOf(chunk[k])]

\* ingest_index.py:140-163  [error, items]: error is {} or {the ValueError}
prepare_upsert_payload(chs, vectors) ==
    IF Len(chs) # Len(vectors)
    THEN [error |-> {"ValueError: Desalineo chunks/vectors"}, items |-> <<>>]
    ELSE IF \E i \in 1..Len(chs) : ~Truthy(Get(chs[i], "id"))
    THEN [error |-> {"ValueError: Chunk sin 'id'; no se puede upsertear."},
          items |-> <<>>]
    ELSE [error |-> {},
          items |-> [i \in 1..Len(chs) |->
                       [id |-> PyStr(The(chs[i].id)),
                        values |-> PyList(vectors[i]),
                        metadata |-> PyDict(to_metadata(chs[i]))]]]

\* str(x) of a scalar
PyStrOf(v) ==
    CASE v.type = "str" -> v.value
      [] v.type = "int" -> ToString(v.value)
      [] v.type = "bool" -> (IF v.value THEN "True" ELSE "False")
      [] v.type = "float" -> v.value
      [] OTHER -> "None"

\* json.dumps(v, ensure_ascii=False) of a dict, a tuple or what they hold
RECURSIVE JsonDumps(_)
JsonDumps(v) ==
    CASE v.type = "str" -> "\"" \o v.value \o "\""
      [] v.type = "int" -> ToString(v.value)
      [] v.type = "bool" -> (IF v.value THEN "true" ELSE "false")
      [] v.type = "float" -> v.value
      [] v.type = "NoneType" -> "null"
      [] v.type \in {"list", "tuple"} ->
            "[" \o JoinWith([i \in 1..Len(v.value) |->
                                JsonDumps(v.value[i])], ", ") \o "]"
      [] v.type = "dict" ->
            "{" \o JoinWith([i \in 1..Len(v.value) |->
                                "\"" \o v.value[i][1] \o "\": "
                                    \o JsonDumps(v.value[i][2])], ", ")
                \o "}"

\* ingest_index.py:179  "" if x is None else str(x)
NoNullElement(x) == IF x.type = "NoneType" THEN PyStr("") ELSE PyStr(PyStrOf(x))

\* ingest_index.py:175-188  the value kept for the metadata value v
no_null_value(v) ==
    CASE v.type = "NoneType" -> PyStr("")
      [] v.type = "list" ->
            PyList([i \in 1..Len(v.value) |-> NoNullElement(v.value[i])])
      [] v.type \in {"dict", "set", "tuple"} -> PyStr(JsonDumps(v))
      [] v.type \in {"str", "int", "float", "bool"} -> v
      [] OTHER -> PyStr(PyStrOf(v))

\* ingest_index.py:172  it.get("metadata") or {}
MetadataOf(it) ==
    IF "metadata" \in DOMAIN it /\ it.metadata.type = "dict"
    THEN it.metadata.value ELSE <<>>

\* ingest_index.py:182-184  json.dumps raises TypeError on a set
HelperNoNullError(items) ==
    IF \E i \in 1..Len(items) : \E k \in DOMAIN MetadataOf(items[i]) :
           MetadataOf(items[i])[k].type = "set"
    THEN {"TypeError: Object of type set is not JSON serializable"}
    ELSE {}

\* ingest_index.py:168-192  the list returned: copies of the items with the
\* metadata values replaced
helper_no_null(items) ==
    [i \in 1..Len(items) |->
        LET md == MetadataOf(items[i])
        IN  [f \in DOMAIN items[i] \cup {"metadata"} |->
                IF f = "metadata"
                THEN PyDict([k \in DOMAIN md |-> no_null_value(md[k])])
                ELSE items[i][f]]]

SanitizeIdle == sitems = <<>> /\ sresult = {}

\* ingest_index.py:168-192  one call of helper_no_null: it works on copies
\* (dict(it), dict(metadata), new lists), so the argument is left as it was
CallHelperNoNull ==
    /\ sresult = {}
    /\ sresult' =
          IF HelperNoNullError(sitems) # {}
          THEN {[kind |-> "raise", value |-> The(HelperNoNullError(sitems))]}
          ELSE {[kind |-> "return", value |-> helper_no_null(sitems)]}
    /\ UNCHANGED sitems

\* ingest_index.py:226  isinstance(c.get("text"), str)
HasText(c) == Get(c, "text") # None

\* Variant: no chunk is dropped.
WithText_All(batch) == batch

\* ingest_index.py:226-229  the batch without the chunks lacking a text
WithText(batch) == SelectSeq(batch, HasText)

\* ingest_index.py:234  c.get("text", "")
IngestTexts(batch) ==
    [i \in 1..Len(batch) |->
        IF "text" \in DOMAIN batch[i] THEN batch[i].text ELSE Some("")]

IngestIdle ==
    /\ ipc = "idle" /\ ichunks = <<>> /\ ibatch_size = 0 /\ ibatches = <<>>
    /\ iok = 0 /\ itotal = 0 /\ iembedded = <<>> /\ isent = <<>>
    /\ isubmitted = <<>> /\ idepFailed = FALSE /\ iresult = {}

\* ingest_index.py:217-223  entry of ingest_file
IngestStart ==
    /\ ipc = "loop" /\ ibatches = batch_iter(ichunks, ibatch_size)
    /\ iok = 0 /\ itotal = 0 /\ iembedded = <<>> /\ isent = <<>>
    /\ isubmitted = <<>> /\ idepFailed = FALSE /\ iresult = {}

\* ingest_index.py:223-231, 241-243  the next batch: count it and drop the
\* chunks without text; or, with no batch left, return (ok, err)
IngestNextBatch ==
    /\ ipc = "loop"
    /\ IF ibatches = <<>>
       THEN /\ iresult' = {[kind |-> "return", ok |-> iok,
                            err |-> itotal - iok]}
            /\ ipc' = "returned"
            /\ UNCHANGED <<ibatches, itotal>>
       ELSE /\ itotal' = itotal + Len(Head(ibatches))
            /\ IF WithText(Head(ibatches)) = <<>>
               THEN ibatches' = Tail(ibatches) /\ ipc' = "loop"
               ELSE ibatches' = ibatches /\ ipc' = "embed"
            /\ iresult' = iresult
    /\ UNCHANGED <<ichunks, ibatch_size, iok, iembedded, isent, isubmitted,
                   idepFailed>>

\* ingest_index.py:234-239  EMB.embed_texts returned the vectors; the payload
\* is prepared and given to PC.upsert, which validates it and then returns
\* len(items) (up = "ok") or raises its last exception (up)
IngestEmbedded(up) ==
    /\ ipc = "embed"
    /\ LET batch == WithText(Head(ibatches))
           texts == IngestTexts(batch)
           vectors == ProviderVectors(texts, 1)
           payload == prepare_upsert_payload(batch, vectors)
           items == helper_no_null(payload.items)
           invalid == UpsertValidationError(items)
       IN  /\ iembedded' = Append(iembedded, texts)
           /\ IF payload.error # {}
              THEN /\ iresult' = {[kind |-> "raise",
                                   value |-> The(payload.error)]}
                   /\ ipc' = "raised"
                   /\ UNCHANGED <<ibatches, iok, isent, isubmitted,
                                  idepFailed>>
              ELSE IF invalid # {}
              THEN /\ isent' = Append(isent, items)
                   /\ iresult' = {[kind |-> "raise",
                                   value |-> "ValueError: " \o The(invalid)]}
                   /\ ipc' = "raised"
                   /\ UNCHANGED <<ibatches, iok, isubmitted, idepFailed>>
              ELSE IF up # "ok"
              THEN /\ isent' = Append(isent, items)
                   /\ idepFailed' = TRUE
                   /\ iresult' = {[kind |-> "raise", value |-> up]}
                   /\ ipc' = "raised"
                   /\ UNCHANGED <<ibatches, iok, isubmitted>>
              ELSE /\ isent' = Append(isent, items)
                   /\ isubmitted' = Append(isubmitted, items)
                   /\ iok' = iok + Len(items)
                   /\ ibatches' = Tail(ibatches)
                   /\ ipc' = "loop"
                   /\ UNCHANGED <<idepFailed, iresult>>
    /\ UNCHANGED <<ichunks, ibatch_size, itotal>>

\* ingest_index.py:235  EMB.embed_texts raises (retries used up)
IngestEmbedFail(exc) ==
    /\ ipc = "embed"
    /\ iembedded' = Append(iembedded, IngestTexts(WithText(Head(ibatches))))
    /\ idepFailed' = TRUE
    /\ iresult' = {[kind |-> "raise", value |-> exc]}
    /\ ipc' = "raised"
    /\ UNCHANGED <<ichunks, ibatch_size, ibatches, iok, itotal, isent,
                   isubmitted>>

(***************************************************************************)
(* indexing/indexer/indexer.py, the orchestrator script.                   *)
(***************************************************************************)
\* ingest_index.py:199-204  the parameters of ingest_file
IngestFileParams == {"path", "batch_size", "namespace"}

\* indexer.py:50-55  the keywords of the call
IndexerCallKeywords == {"batch_size", "namespace", "dry_run"}

\* the call binds: every keyword is a parameter
CallBinds(keywords, params) == keywords \subseteq params

FileName(i) == "f" \o ToString(i) \o ".jsonl"

\* ingest_index.py:52-76  sorted(chunks_dir.rglob("*.jsonl")); `found` is
\* the set of i with file FileName(i) in the directory
iter_jsonl_files(found) ==
    SelectSeq([i \in 1..MaxFiles |-> FileName(i)],
              LAMBDA f : \E i \in found : f = FileName(i))

IndexerIdle ==
    /\ xpc = "idle" /\ xfiles = <<>> /\ xi = 0
    /\ total_ok = 0 /\ total_err = 0 /\ processed = 0
    /\ xinvoked = <<>> /\ summary = {} /\ xerror = {}

\* indexer.py:43-46
IndexerStart ==
    /\ xpc = "loop" /\ xi = 1
    /\ total_ok = 0 /\ total_err = 0 /\ processed = 0
    /\ xinvoked = <<>> /\ summary = {} /\ xerror = {}

\* indexer.py:48-62  one iteration: the call of ingest_file for files[xi].
\* A call that does not bind raises TypeError; one that binds runs
\* ingest_file, which returns (ok, err) or raises; nothing is caught.
IndexerIngest(res) ==
    /\ xpc = "loop" /\ xi <= Len(xfiles)
    /\ IF ~CallBinds(IndexerCallKeywords, IngestFileParams)
       THEN /\ xerror' = {"TypeError: ingest_file() got an unexpected keyword argument 'dry_run'"}
            /\ xpc' = "raised"
            /\ UNCHANGED <<xi, total_ok, total_err, processed, xinvoked>>
       ELSE /\ xinvoked' = Append(xinvoked, xfiles[xi])
            /\ IF res.kind = "raise"
               THEN /\ xerror' = {res.value}
                    /\ xpc' = "raised"
                    /\ UNCHANGED <<xi, total_ok, total_err, processed>>
               ELSE /\ total_ok' = total_ok + res.ok
                    /\ total_err' = total_err + res.err
                    /\ processed' = processed + 1
                    /\ xi' = xi + 1
                    /\ xpc' = "loop"
                    /\ xerror' = xerror
    /\ UNCHANGED <<xfiles, summary>>

\* indexer.py:64-65  after the loop
IndexerSummary ==
    /\ xpc = "loop" /\ xi > Len(xfiles)
    /\ summary' = {[files |-> processed, ok |-> total_ok,
                    errors |-> total_err]}
    /\ xpc' = "done"
    /\ UNCHANGED <<xfiles, xi, total_ok, total_err, processed, xinvoked,
                   xerror>>

(***************************************************************************)
(* indexing/chunker/policy.py and core.py.  A section node is a record     *)
(* [level, heading_text, anchor, blocks, children]; heading_text and       *)
(* anchor are optional strings.  sha1 is taken to be injective: a hash is  *)
(* modelled by the string that is hashed.                                  *)
(***************************************************************************)
HARD_TOKENS == 1000
INCLUDE_HEADING == TRUE

\* policy.py:59  ceil(len(text) / 4)
estimate_tokens(text) == (Len(text) + 3) \div 4

\* core.py:103  the code fence, three backquotes (written with tildes here)
Fence == "~~~"

\* core.py:102  block.get("content", "")
CodeOf(block) == IF "content" \in DOMAIN block THEN block.content ELSE ""

\* core.py:88-106  [text, has_code]
render_block(block) ==
    CASE block.type = "paragraph" ->
            [text |-> block.text, has_code |-> FALSE]
      [] block.type = "list" ->
            [text |-> JoinWith([i \in 1..Len(block.items) |->
                                   "- " \o block.items[i]], "\n"),
             has_code |-> FALSE]
      [] block.type = "code" ->
            [text |-> IF Truthy(Get(block, "language"))
                      THEN Fence \o The(block.language) \o "\n"
                               \o CodeOf(block) \o "\n" \o Fence
                      ELSE Fence \o "\n" \o CodeOf(block) \o "\n" \o Fence,
             has_code |-> TRUE]
      [] OTHER -> [text |-> "", has_code |-> FALSE]

\* core.py:109-123
render_blocks(blocks) ==
    LET rendered == [i \in 1..Len(blocks) |-> render_block(blocks[i])]
        texts == [i \in 1..Len(blocks) |-> rendered[i].text]
        parts == SelectSeq(texts, LAMBDA t : t # "")
    IN  [text |-> Strip(JoinWith(parts, "\n\n")),
         has_code |-> \E i \in 1..Len(blocks) : rendered[i].has_code]

\* core.py:126-129
render_heading_line(node) ==
    IF node.heading_text # None /\ Strip(The(node.heading_text)) # ""
    THEN Strip(The(node.heading_text)) ELSE ""

\* core.py:132-140
concat_heading_and_body(heading_line, body) ==
    IF body = "" THEN (IF INCLUDE_HEADING THEN heading_line ELSE "")
    ELSE IF INCLUDE_HEADING /\ heading_line # ""
    THEN heading_line \o "\n\n" \o body
    ELSE body

\* core.py:266-268, 278-280  a section's own heading and body
RenderSection(node) ==
    LET body == render_blocks(node.blocks)
    IN  [text |-> concat_heading_and_body(render_heading_line(node),
                                          body.text),
         has_code |-> body.has_code]

\* core.py:145-155  parent_chain is ordered from the outermost parent
RECURSIVE ascend_anchor(_, _)
ascend_anchor(node, parent_chain) ==
    IF Truthy(node.anchor) THEN node.anchor
    ELSE IF Len(parent_chain) = 0 THEN None
    ELSE ascend_anchor(parent_chain[Len(parent_chain)],
                       SubSeq(parent_chain, 1, Len(parent_chain) - 1))

AnchorOrEmpty(anchor) == IF Truthy(anchor) THEN The(anchor) ELSE ""

\* Variant: the id leaves the sequence number out.
chunk_id_NoSeq(url_final, anchor, seq) ==
    url_final \o "#" \o AnchorOrEmpty(anchor)

\* core.py:160-165
chunk_id(url_final, anchor, seq) ==
    url_final \o "#" \o AnchorOrEmpty(anchor) \o "|" \o ToString(seq)

\* core.py:168-172
dedupe_key(text, anchor) == text \o "|" \o AnchorOrEmpty(anchor)

\* core.py:177-189  the first component of _fits
fits(next_text, current_text) ==
    LET sep == IF current_text # "" /\ next_text # "" THEN "\n\n" ELSE ""
        combined == Strip(current_text \o sep \o next_text)
    IN  estimate_tokens(combined) <= HARD_TOKENS

\* Variant: a dropped duplicate uses up its sequence number.
SeqAfterDuplicate_Consumed(seq) == seq + 1

\* core.py:220-221  the seq returned when the key was already seen
SeqAfterDuplicate(seq) == seq

\* core.py:194-241  st is [out, seen_keys, seq]
emit_chunk(st, pg, section_node, parent_chain, text, has_code) ==
    IF text = "" THEN st
    ELSE LET url_final == pg.provenance.url_final
             chosen_anchor == ascend_anchor(section_node, parent_chain)
             key == dedupe_key(text, chosen_anchor)
         IN  IF key \in st.seen_keys
             THEN [st EXCEPT !.seq = SeqAfterDuplicate(st.seq)]
             ELSE [out |-> Append(st.out,
                      [id |-> chunk_id(url_final, chosen_anchor, st.seq),
                       text |-> text,
                       url_final |-> url_final,
                       url_citable |->
                           IF Truthy(chosen_anchor)
                           THEN url_final \o "#" \o The(chosen_anchor)
                           ELSE url_final,
                       title |-> pg.provenance.title,
                       section_level |-> section_node.level,
                       section_heading |-> section_node.heading_text,
                       section_anchor |-> chosen_anchor,
                       fetched_at |-> pg.provenance.fetched_at,
                       has_code |-> has_code]),
                   seen_keys |-> st.seen_keys \cup {key},
                   seq |-> st.seq + 1]

\* core.py:55-68  the H2 nodes in order, each with its parent chain
\* (core.py:418-438)
RECURSIVE iter_h2_nodes(_, _)
iter_h2_nodes(sections, parents) ==
    IF Len(sections) = 0 THEN <<>>
    ELSE LET sec == Head(sections)
             here == IF sec.level = 2
                     THEN <<[node |-> sec, chain |-> parents]>>
                     ELSE IF sec.level = 1
                     THEN iter_h2_nodes(sec.children, Append(parents, sec))
                     ELSE <<>>
         IN  here \o iter_h2_nodes(Tail(sections), parents)

\* core.py:377-413
RECURSIVE emit_h3_subchunks(_, _, _, _)
emit_h3_subchunks(st, pg, h2_parent, h3_list) ==
    IF Len(h3_list) = 0 THEN st
    ELSE LET h3 == Head(h3_list)
             r == RenderSection(h3)
             st1 == IF Strip(r.text) = "" THEN st
                    ELSE emit_chunk(st, pg, h3, <<h2_parent>>, r.text,
                                    r.has_code)
         IN  emit_h3_subchunks(st1, pg, h2_parent, Tail(h3_list))

\* list.index: the first position holding a value equal to x
IndexOf(list, x) == CHOOSE i \in 1..Len(list) :
                        list[i] = x /\ \A j \in 1..(i - 1) : list[j] # x

\* core.py:276-333  the loop over the H3 children of one H2, from child i on
RECURSIVE FoldChildren(_, _, _, _, _, _, _)
FoldChildren(st, pg, h2, chain, i, current_text, current_has_code) ==
    LET children == h2.children
    IN  IF i > Len(children)
        THEN emit_chunk(st, pg, h2, chain, current_text, current_has_code)
        ELSE LET h3 == children[i]
                 r == RenderSection(h3)
             IN  IF Strip(r.text) = ""
                 THEN FoldChildren(st, pg, h2, chain, i + 1, current_text,
                                   current_has_code)
                 ELSE IF fits(r.text, current_text)
                 THEN LET sep == IF current_text # "" /\ r.text # ""
                                 THEN "\n\n" ELSE ""
                      IN  FoldChildren(st, pg, h2, chain, i + 1,
                                       Strip(current_text \o sep \o r.text),
                                       current_has_code \/ r.has_code)
                 ELSE LET st1 == emit_chunk(st, pg, h2, chain, current_text,
                                            current_has_code)
                          rest == SubSeq(children, IndexOf(children, h3) + 1,
                                         Len(children))
                      IN  emit_h3_subchunks(st1, pg, h2, <<h3>> \o rest)

\* core.py:263-333  the loop over the H2 nodes
RECURSIVE ChunkH2s(_, _, _)
ChunkH2s(st, pg, h2_nodes) ==
    IF Len(h2_nodes) = 0 THEN st
    ELSE LET h2 == Head(h2_nodes).node
             r == RenderSection(h2)
             st1 == FoldChildren(st, pg, h2, Head(h2_nodes).chain, 1,
                                 r.text, r.has_code)
         IN  ChunkH2s(st1, pg, Tail(h2_nodes))

\* core.py:71-83
first_h1_or_root(sections) ==
    IF \E i \in 1..Len(sections) : sections[i].level = 1
    THEN sections[CHOOSE i \in 1..Len(sections) :
                     /\ sections[i].level = 1
                     /\ \A j \in 1..(i - 1) : sections[j].level # 1]
    ELSE [level |-> 1, heading_text |-> None, anchor |-> None,
          blocks |-> <<>>, children |-> sections]

\* core.py:345-370  the loop over the children of the H1 (or root), from
\* child i on, and the chunk emitted after it
RECURSIVE FoldFallback(_, _, _, _, _, _)
FoldFallback(st, pg, h1, i, text, has_code) ==
    IF i > Len(h1.children)
    THEN emit_chunk(st, pg, h1, <<>>, text, has_code)
    ELSE LET child == h1.children[i]
             r == RenderSection(child)
         IN  IF r.text = ""
             THEN FoldFallback(st, pg, h1, i + 1, text, has_code)
             ELSE IF fits(r.text, text)
             THEN LET sep == IF text # "" /\ r.text # "" THEN "\n\n" ELSE ""
                  IN  FoldFallback(st, pg, h1, i + 1,
                                   Strip(text \o sep \o r.text),
                                   has_code \/ r.has_code)
             ELSE LET st1 == emit_chunk(st, pg, h1, <<>>, text, has_code)
                      st2 == emit_chunk(st1, pg, child, <<h1>>, r.text,
                                        r.has_code)
                  IN  FoldFallback(st2, pg, h1, i + 1, "", FALSE)

\* core.py:246-372
make_chunks(parsed_page) ==
    LET st0 == [out |-> <<>>, seen_keys |-> {}, seq |-> 0]
        sections == parsed_page.sections
        h2_nodes == iter_h2_nodes(sections, <<>>)
    IN  IF Len(h2_nodes) > 0
        THEN ChunkH2s(st0, parsed_page, h2_nodes).out
        ELSE LET h1 == first_h1_or_root(sections)
                 r == RenderSection(h1)
             IN  FoldFallback(st0, parsed_page, h1, 1, r.text,
                              r.has_code).out

EmptyPage ==
    [provenance |-> [url_final |-> "", title |-> None, fetched_at |-> None],
     sections |-> <<>>]

\* the dicts of a parsed page: a paragraph block and a section node
Paragraph(t) == [type |-> "paragraph", text |-> t]
Section(lvl, heading, anchor, blocks, children) ==
    [level |-> lvl, heading_text |-> heading, anchor |-> anchor,
     blocks |-> blocks, children |-> children]

(***************************************************************************)
(* indexing/parser/core.py: _DocHTMLParser and parse_document.  The        *)
(* parser object is the record parser, one field per attribute.  Section   *)
(* objects live in parser.heap and are named by their index there:         *)
(* section_stack, sections (the roots) and a Section's children hold       *)
(* indexes.  HTMLParser.feed calls one handler per token of the page, in   *)
(* order; a token is a start tag with its attributes, an end tag or text.  *)
(***************************************************************************)
\* core.py:79-84
SKIP_TAGS ==
    {"script", "style", "noscript", "nav", "header", "footer", "aside",
     "form"}

NoAttrs == [id |-> None, class |-> None, data_lang |-> None]
StartTag(tag, attrs) == [kind |-> "start", tag |-> tag, attrs |-> attrs]
EndTag(tag) == [kind |-> "end", tag |-> tag]
Data(text) == [kind |-> "data", data |-> text]

\* str.split(): the pieces between runs of whitespace, from position i on
RECURSIVE SplitFrom(_, _, _)
SplitFrom(s, i, cur) ==
    IF i > Len(s) THEN (IF cur = "" THEN <<>> ELSE <<cur>>)
    ELSE IF IsSpace(SubSeq(s, i, i))
    THEN (IF cur = "" THEN <<>> ELSE <<cur>>) \o SplitFrom(s, i + 1, "")
    ELSE SplitFrom(s, i + 1, cur \o SubSeq(s, i, i))
SplitWs(s) == SplitFrom(s, 1, "")

\* "".join(buf)
Concat(buf) == JoinWith(buf, "")

\* core.py:23-33  " ".join(text.split()); the texts of the model hold
\* no non-breaking space
normalize_ws(text) == JoinWith(SplitWs(text), " ")

\* core.py:41-51  the dataclass Block; unused fields stay None
Block(type, text, code, language, ordered, items) ==
    [type |-> type, text |-> text, code |-> code, language |-> language,
     ordered |-> ordered, items |-> items]
ParagraphBlock(text) == Block("paragraph", Some(text), None, None, None, None)
CodeBlock(code, language) ==
    Block("code", None, Some(code), language, None, None)
ListBlock(ordered, items) ==
    Block("list", None, None, None, Some(ordered), Some(items))

\* core.py:54-66  the dataclass Section; heading_text is a str here
NewSection(level, heading_text, anchor) ==
    [level |-> level, heading_text |-> heading_text, anchor |-> anchor,
     blocks |-> <<>>, children |-> <<>>]

\* core.py:86-133 and the attributes the handlers create (209-212)
NewParser ==
    [page_title |-> "", section_stack |-> <<>>, sections |-> <<>>,
     heap |-> <<>>,
     in_p |-> FALSE, p_buf |-> <<>>,
     in_pre |-> FALSE, in_code |-> FALSE, code_buf |-> <<>>,
     code_lang |-> None,
     in_ul |-> FALSE, in_ol |-> FALSE, in_li |-> FALSE,
     list_items |-> <<>>, li_buf |-> <<>>,
     skip_depth |-> 0, in_head |-> FALSE, in_title |-> FALSE,
     in_heading |-> FALSE, heading_level |-> 0, heading_anchor |-> None,
     heading_buf |-> <<>>]

StackTop(stack) == stack[Len(stack)]

\* core.py:147-150  the section made up for blocks that come before any
\* heading
WithRootSection(ps) ==
    IF ps.section_stack = <<>>
    THEN [ps EXCEPT !.heap = Append(@, NewSection(1, "", None)),
                    !.section_stack = <<Len(ps.heap) + 1>>,
                    !.sections = Append(@, Len(ps.heap) + 1)]
    ELSE ps

\* core.py:152
AttachToTop(ps, block) ==
    [ps EXCEPT !.heap[StackTop(ps.section_stack)].blocks = Append(@, block)]

\* core.py:144-152
append_block(ps, block) == AttachToTop(WithRootSection(ps), block)

\* core.py:166-167
ClampLevel(level) == IF level > 3 THEN 3 ELSE level

\* Variant: only a deeper section on top is popped.
ShouldPop_Deeper(top_level, level) == top_level > level

\* core.py:170  the test of the while loop
ShouldPop(top_level, level) == top_level >= level

\* core.py:170-171
RECURSIVE PopTo(_, _, _)
PopTo(heap, stack, level) ==
    IF stack # <<>> /\ ShouldPop(heap[StackTop(stack)].level, level)
    THEN PopTo(heap, SubSeq(stack, 1, Len(stack) - 1), level)
    ELSE stack

\* core.py:173-178  the new Section gets the next index of the heap
PushOnto(ps, stack, sec) ==
    [ps EXCEPT
       !.heap = IF stack # <<>>
                THEN [Append(ps.heap, sec) EXCEPT
                        ![StackTop(stack)].children =
                            Append(@, Len(ps.heap) + 1)]
                ELSE Append(ps.heap, sec),
       !.sections = IF stack = <<>> THEN Append(@, Len(ps.heap) + 1) ELSE @,
       !.section_stack = Append(stack, Len(ps.heap) + 1)]

\* core.py:154-178
push_section(ps, level, heading_text, anchor) ==
    PushOnto(ps, PopTo(ps.heap, ps.section_stack, ClampLevel(level)),
             NewSection(ClampLevel(level), heading_text, anchor))

\* core.py:376-378, 290-292
EmitParagraph(ps, text) ==
    IF text # "" THEN append_block(ps, ParagraphBlock(text)) ELSE ps

\* core.py:374-379, 288-294
CloseP(ps) ==
    IF ps.in_p
    THEN [EmitParagraph(ps, normalize_ws(Concat(ps.p_buf)))
             EXCEPT !.in_p = FALSE, !.p_buf = <<>>]
    ELSE ps

\* core.py:381-386, 297-303
CloseLi(ps) ==
    IF ps.in_li
    THEN [ps EXCEPT
            !.in_li = FALSE,
            !.list_items =
                IF normalize_ws(Concat(ps.li_buf)) # ""
                THEN Append(@, normalize_ws(Concat(ps.li_buf))) ELSE @,
            !.li_buf = <<>>]
    ELSE ps

\* core.py:390-391, 307-308
EmitList(ps, ordered) ==
    IF ps.list_items # <<>>
    THEN append_block(ps, ListBlock(ordered, ps.list_items)) ELSE ps

\* core.py:388-392, 305-310
CloseUl(ps) ==
    IF ps.in_ul
    THEN [EmitList(ps, FALSE) EXCEPT !.in_ul = FALSE, !.list_items = <<>>]
    ELSE ps

\* core.py:393-397, 312-317
CloseOl(ps) ==
    IF ps.in_ol
    THEN [EmitList(ps, TRUE) EXCEPT !.in_ol = FALSE, !.list_items = <<>>]
    ELSE ps

\* core.py:401-403, 327-329  the text of a <pre>, kept as it came
EmitCode(ps, code_text) ==
    IF Strip(code_text) # ""
    THEN append_block(ps, CodeBlock(code_text, ps.code_lang)) ELSE ps

\* core.py:399-405, 324-332
ClosePre(ps) ==
    IF ps.in_pre
    THEN [EmitCode(ps, Concat(ps.code_buf))
             EXCEPT !.in_pre = FALSE, !.code_buf = <<>>, !.code_lang = None]
    ELSE ps

\* core.py:371-405
close_open_block_if_any(ps) ==
    ClosePre(CloseOl(CloseUl(CloseLi(CloseP(ps)))))

\* core.py:246-254  the language named by the first class token that
\* starts with language- or lang-
RECURSIVE FirstLang(_)
FirstLang(toks) ==
    IF toks = <<>> THEN None
    ELSE IF StartsWith(Lower(Head(toks)), "language-")
    THEN Some(SubSeq(Head(toks), 10, Len(Head(toks))))
    ELSE IF StartsWith(Lower(Head(toks)), "lang-")
    THEN Some(SubSeq(Head(toks), 6, Len(Head(toks))))
    ELSE FirstLang(Tail(toks))

StrOrEmpty(o) == IF Truthy(o) THEN The(o) ELSE ""

\* core.py:245-254
CodeLang(attrs) ==
    FirstLang(SplitWs(StrOrEmpty(attrs.class) \o " "
                          \o StrOrEmpty(attrs.data_lang)))

\* core.py:190-193
HeadFlags(ps, t) ==
    IF t = "head" THEN [ps EXCEPT !.in_head = TRUE]
    ELSE IF t = "title" /\ ps.in_head THEN [ps EXCEPT !.in_title = TRUE]
    ELSE ps

\* core.py:204, 209  the tags handled as headings, with their levels
HeadingLevels == [h1 |-> 1, h2 |-> 2, h3 |-> 3]

\* core.py:203-257  a start tag outside a skipped zone
StartBody(ps, t, attrs) ==
    CASE t \in DOMAIN HeadingLevels ->
            [close_open_block_if_any(ps) EXCEPT
               !.heading_level = HeadingLevels[t],
               !.heading_anchor = attrs.id,
               !.heading_buf = <<>>,
               !.in_heading = TRUE]
      [] t = "p" -> [ps EXCEPT !.in_p = TRUE, !.p_buf = <<>>]
      [] t = "ul" -> [ps EXCEPT !.in_ul = TRUE, !.list_items = <<>>]
      [] t = "ol" -> [ps EXCEPT !.in_ol = TRUE, !.list_items = <<>>]
      [] t = "li" -> [ps EXCEPT !.in_li = TRUE, !.li_buf = <<>>]
      [] t = "pre" -> [ps EXCEPT !.in_pre = TRUE, !.code_buf = <<>>,
                                 !.code_lang = None]
      [] t = "code" ->
            [ps EXCEPT !.in_code = TRUE,
                       !.code_lang = IF Truthy(CodeLang(attrs))
                                     THEN Or(@, CodeLang(attrs)) ELSE @]
      [] OTHER -> ps

\* core.py:196-201
StartAfterHead(ps, t, attrs) ==
    IF t \in SKIP_TAGS THEN [ps EXCEPT !.skip_depth = @ + 1]
    ELSE IF ps.skip_depth > 0 THEN ps
    ELSE StartBody(ps, t, attrs)

\* core.py:184-257
handle_starttag(ps, tag, attrs) ==
    StartAfterHead(HeadFlags(ps, Lower(tag)), Lower(tag), attrs)

\* core.py:278-332  an end tag outside a skipped zone
EndBody(ps, t) ==
    CASE t \in DOMAIN HeadingLevels /\ ps.in_heading ->
            [push_section(ps, ps.heading_level,
                          normalize_ws(Concat(ps.heading_buf)),
                          ps.heading_anchor)
                EXCEPT !.in_heading = FALSE, !.heading_buf = <<>>,
                       !.heading_anchor = None]
      [] t = "p" /\ ps.in_p -> CloseP(ps)
      [] t = "li" /\ ps.in_li -> CloseLi(ps)
      [] t = "ul" /\ ps.in_ul -> CloseUl(ps)
      [] t = "ol" /\ ps.in_ol -> CloseOl(ps)
      [] t = "code" /\ ps.in_code -> [ps EXCEPT !.in_code = FALSE]
      [] t = "pre" /\ ps.in_pre -> ClosePre(ps)
      [] OTHER -> ps

\* core.py:259-332
EndLowered(ps, t) ==
    IF t = "title" /\ ps.in_title THEN [ps EXCEPT !.in_title = FALSE]
    ELSE IF t = "head" /\ ps.in_head THEN [ps EXCEPT !.in_head = FALSE]
    ELSE IF t \in SKIP_TAGS
    THEN (IF ps.skip_depth > 0 THEN [ps EXCEPT !.skip_depth = @ - 1] ELSE ps)
    ELSE IF ps.skip_depth > 0 THEN ps
    ELSE EndBody(ps, t)
handle_endtag(ps, tag) == EndLowered(ps, Lower(tag))

\* core.py:334-365
handle_data(ps, data) ==
    IF data = "" THEN ps
    ELSE IF ps.in_title /\ ps.in_head
    THEN [ps EXCEPT !.page_title = @ \o data]
    ELSE IF ps.skip_depth > 0 THEN ps
    ELSE IF ps.in_heading THEN [ps EXCEPT !.heading_buf = Append(@, data)]
    ELSE IF ps.in_pre THEN [ps EXCEPT !.code_buf = Append(@, data)]
    ELSE IF ps.in_li THEN [ps EXCEPT !.li_buf = Append(@, data)]
    ELSE IF ps.in_p THEN [ps EXCEPT !.p_buf = Append(@, data)]
    ELSE ps

\* core.py:465-474  the dict written for a block
block_to_dict(b) ==
    CASE b.type = "paragraph" -> Paragraph(StrOrEmpty(b.text))
      [] b.type = "code" ->
            IF Truthy(b.language)
            THEN [type |-> "code", code |-> StrOrEmpty(b.code),
                  language |-> b.language]
            ELSE [type |-> "code", code |-> StrOrEmpty(b.code)]
      [] b.type = "list" -> [type |-> "list", ordered |-> The(b.ordered),
                             items |-> The(b.items)]
      [] OTHER -> [type |-> b.type]

\* core.py:455-463  a missing anchor key reads as None
RECURSIVE section_to_dict(_, _)
section_to_dict(heap, id) ==
    Section(heap[id].level, Some(heap[id].heading_text),
            IF Truthy(heap[id].anchor) THEN heap[id].anchor ELSE None,
            [i \in 1..Len(heap[id].blocks) |->
                block_to_dict(heap[id].blocks[i])],
            [i \in 1..Len(heap[id].children) |->
                section_to_dict(heap, heap[id].children[i])])

\* core.py:435-440  the first non-empty heading of a level-1 root
RECURSIVE FirstH1(_, _)
FirstH1(heap, roots) ==
    IF roots = <<>> THEN ""
    ELSE IF heap[Head(roots)].level = 1
            /\ Strip(heap[Head(roots)].heading_text) # ""
    THEN Strip(heap[Head(roots)].heading_text)
    ELSE FirstH1(heap, Tail(roots))

\* core.py:432-442
DocTitle(ps) ==
    IF Strip(ps.page_title) # "" THEN Strip(ps.page_title)
    ELSE FirstH1(ps.heap, ps.sections)

\* core.py:446-447
WithSomeSection(ps, title) ==
    IF ps.sections = <<>>
    THEN [ps EXCEPT !.heap = Append(@, NewSection(1, title, None)),
                    !.sections = <<Len(ps.heap) + 1>>]
    ELSE ps

\* core.py:451-453
WithRootTitle(ps, title) ==
    IF ps.heap[ps.sections[1]].level = 1
       /\ ps.heap[ps.sections[1]].heading_text = "" /\ title # ""
    THEN [ps EXCEPT !.heap[ps.sections[1]].heading_text = title]
    ELSE ps

\* core.py:476-483
DocOf(ps, title, url_final, fetched_at) ==
    [provenance |-> [url_final |-> url_final, title |-> Some(title),
                     fetched_at |-> Some(fetched_at)],
     sections |-> [i \in 1..Len(ps.sections) |->
                      section_to_dict(ps.heap, ps.sections[i])]]

\* core.py:412-488  after feed and close
parse_document(ps, url_final, fetched_at) ==
    DocOf(WithRootTitle(WithSomeSection(ps, DocTitle(ps)), DocTitle(ps)),
          DocTitle(ps), url_final, fetched_at)

\* The pages fed to the parser: every token sequence of up to
\* MaxParseEvents tokens of FreeTokens, and the pages of HtmlPages.
FreeTags == {"h1", "h2", "h3", "h4", "p", "pre", "nav", "footer", "head",
             "title"}
FreeTokens ==
    { StartTag(t, NoAttrs) : t \in FreeTags }
    \cup { EndTag(t) : t \in FreeTags }
    \cup { Data("a"), Data(" b ") }
Heading(tag, text) ==
    <<StartTag(tag, NoAttrs), Data(text), EndTag(tag)>>
AnchoredHeading(tag, id, text) ==
    <<StartTag(tag, [NoAttrs EXCEPT !.id = Some(id)]), Data(text),
      EndTag(tag)>>
Para(text) == <<StartTag("p", NoAttrs), Data(text), EndTag("p")>>
Item(text) == <<StartTag("li", NoAttrs), Data(text), EndTag("li")>>
Pre(class, data) ==
    <<StartTag("pre", NoAttrs),
      StartTag("code", [NoAttrs EXCEPT !.class = class])>>
    \o data \o <<EndTag("code"), EndTag("pre")>>
CodeText == "x = 1\n  y"
HtmlPages ==
    { Heading("h1", "T") \o Para("intro") \o Heading("h2", "A") \o Para("a"),
      Heading("h3", "K") \o Para("k") \o Heading("h2", "A") \o Para("a"),
      Heading("h1", "T") \o Para("a") \o Heading("h1", "U") \o Para("b"),
      AnchoredHeading("h2", "a", "A")
          \o Pre(Some("hl language-py"), <<Data(CodeText)>>),
      Heading("h2", "A") \o Pre(None, <<Data("x "), Data("\n"), Data("y")>>),
      Para("a") \o Heading("h3", "K") \o Pre(Some("lang-js"), <<Data("z")>>),
      Heading("h2", "A") \o Heading("h3", "K")
          \o <<StartTag("ul", NoAttrs)>> \o Item("x") \o Item(" y  z")
          \o <<EndTag("ul")>>,
      Heading("h2", "A") \o Heading("h3", "K") \o Para("k")
          \o Heading("h2", "B") \o <<StartTag("ol", NoAttrs)>> \o Item("i")
          \o <<EndTag("ol")>>,
      Heading("h2", "A") \o Heading("h5", "Deep") \o Para("x"),
      <<StartTag("head", NoAttrs), StartTag("noscript", NoAttrs),
        StartTag("title", NoAttrs), Data("T"), EndTag("title"),
        EndTag("noscript"), EndTag("head")>> \o Heading("h1", "H")
          \o Para("a"),
      <<StartTag("nav", NoAttrs)>> \o Para("menu") \o <<EndTag("nav")>>
          \o Heading("h2", "A") \o Para("a") }
\* what the start-tag, end-tag and text handlers are called with
ParseTokens ==
    FreeTokens \cup UNION {{pg[i] : i \in 1..Len(pg)} : pg \in HtmlPages}

\* the tags of a heading deeper than h3
DeepTags == {"h4", "h5", "h6"}
NoSkips == [t \in SKIP_TAGS |-> 0]

ParseIdle ==
    /\ ppc = "idle" /\ feed = <<>> /\ left = 0
    /\ parser = NewParser /\ deep = None /\ open_skips = NoSkips
    /\ pdoc = {} /\ pchunks = {}

\* history: the deep heading being read, if the tokens since its start tag
\* are text only; closed once its end tag has come
DeepAfter(d, ps, tok) ==
    IF tok.kind = "start" /\ tok.tag \in DeepTags /\ ps.skip_depth = 0
       /\ ~ps.in_title /\ ~ps.in_heading
    THEN Some([text |-> "", closed |-> FALSE])
    ELSE IF \E h \in d : ~h.closed /\ tok.kind = "data"
    THEN {[h EXCEPT !.text = @ \o tok.data] : h \in d}
    ELSE IF \E h \in d : ~h.closed /\ tok.kind = "end" /\ tok.tag \in DeepTags
    THEN {[h EXCEPT !.closed = TRUE] : h \in d}
    ELSE None

\* history: per skip tag, the start tags not yet answered by an end tag of
\* the same name
SkipsAfter(o, tok) ==
    IF tok.kind = "start" /\ tok.tag \in SKIP_TAGS
    THEN [o EXCEPT ![tok.tag] = @ + 1]
    ELSE IF tok.kind = "end" /\ tok.tag \in SKIP_TAGS /\ o[tok.tag] > 0
    THEN [o EXCEPT ![tok.tag] = @ - 1]
    ELSE o

\* HTMLParser.feed hands the next token of the page to its handler: the
\* next one of a page given whole, or any token of FreeTokens
Fed(tok) ==
    /\ ppc = "feeding"
    /\ IF feed # <<>>
       THEN tok = Head(feed) /\ feed' = Tail(feed) /\ left' = left
       ELSE left > 0 /\ tok \in FreeTokens /\ left' = left - 1
            /\ feed' = feed
    /\ deep' = DeepAfter(deep, parser, tok)
    /\ open_skips' = SkipsAfter(open_skips, tok)
    /\ UNCHANGED <<ppc, pdoc, pchunks>>

\* core.py:184-257
FeedStartTag(tag, attrs) ==
    /\ Fed(StartTag(tag, attrs))
    /\ parser' = handle_starttag(parser, tag, attrs)

\* core.py:259-332
FeedEndTag(tag) ==
    /\ Fed(EndTag(tag))
    /\ parser' = handle_endtag(parser, tag)

\* core.py:334-365
FeedData(data) ==
    /\ Fed(Data(data))
    /\ parser' = handle_data(parser, data)

\* core.py:412-488  parse_document once the page has been fed
ParseDocument ==
    /\ ppc = "feeding" /\ feed = <<>>
    /\ pdoc' = {parse_document(parser, "https://x/p", "2025")}
    /\ ppc' = "parsed"
    /\ UNCHANGED <<feed, left, parser, deep, open_skips, pchunks>>

\* chunker.py:36-37  make_chunks on the document the parser wrote
ChunkParsed ==
    /\ ppc = "parsed"
    /\ pchunks' = {make_chunks(The(pdoc))}
    /\ ppc' = "chunked"
    /\ UNCHANGED <<feed, left, parser, deep, open_skips, pdoc>>

ChunkIdle ==
    /\ page = EmptyPage /\ chunks = {}
    /\ page2 = EmptyPage /\ chunks2 = {}
    /\ ParseIdle

CallMakeChunks ==
    /\ chunks = {}
    /\ chunks' = {make_chunks(page)}
    /\ UNCHANGED <<page, page2, chunks2>>

\* the page with one character added at the end of the first block, a
\* paragraph, of its j-th top-level section
EditSection(pg, j) ==
    [pg EXCEPT !.sections[j].blocks[1].text = @ \o "!"]

Editable(pg, j) ==
    /\ j \in 1..Len(pg.sections)
    /\ pg.sections[j].level = 2
    /\ Len(pg.sections[j].blocks) > 0
    /\ pg.sections[j].blocks[1].type = "paragraph"

\* core.py:246-259  a later call of make_chunks, on the same page (j = 0)
\* or on the page after an edit of its j-th section: out, seen_keys and seq
\* are locals of the call, nothing is kept from the first one
CallMakeChunksAgain(j) ==
    /\ chunks # {} /\ chunks2 = {}
    /\ j = 0 \/ Editable(page, j)
    /\ page2' = IF j = 0 THEN page ELSE EditSection(page, j)
    /\ chunks2' = {make_chunks(page2')}
    /\ UNCHANGED <<page, chunks>>

ToolIdle == SanitizeIdle /\ NormIdle /\ FilterIdle
IndexIdle == BatchIdle /\ IngestIdle /\ IndexerIdle /\ ChunkIdle /\ ToolIdle
PipeIdle == EmbedIdle /\ UpsertIdle /\ CrawlIdle /\ IndexIdle

(***************************************************************************)
(* Specifications.                                                         *)
(***************************************************************************)
\* One /chat request.
InitChat ==
    /\ messages \in SeqsUpTo(MessageInputs, MaxMsgs)
    /\ pc = "start" /\ hpc = "iterating"
    /\ question = "" /\ docs = <<>> /\ citations = <<>> /\ full_answer = ""
    /\ events = <<>> /\ frames = <<>> /\ generated = <<>>
    /\ calls = [retrieve |-> 0, chain |-> 0]
    /\ outcome = [kind |-> "none", detail |-> ""] /\ cancelledAt = "no"
    /\ CiteIdle /\ FetchIdle /\ PipeIdle

ChatOnly == UNCHANGED <<citeVars, fetchVars, pipeVars>>

NextChat ==
    \/ Start /\ ChatOnly
    \/ \E matches \in SeqsUpTo(ChatMatches, MaxDocs) :
          RetrieveOk(matches) /\ ChatOnly
    \/ \E d \in Details : RetrieveFail(d) /\ ChatOnly
    \/ \E t \in Tokens : NextToken(t) /\ ChatOnly
    \/ GenerateEnd /\ ChatOnly
    \/ \E d \in Details : GenerateFail(d) /\ ChatOnly
    \/ Resume /\ ChatOnly
    \/ SleepDone /\ ChatOnly
    \/ Cancel /\ ChatOnly

SpecChat == InitChat /\ [][NextChat]_vars

\* build_citations_from_docs on every list of up to MaxDocs passages.
InitCite ==
    /\ cdocs \in SeqsUpTo(CiteDocs, MaxDocs)
    /\ cout = {}
    /\ ChatIdle /\ FetchIdle /\ PipeIdle

NextCite == CallBuildCitations /\ UNCHANGED <<chatVars, fetchVars, pipeVars>>

SpecCite == InitCite /\ [][NextCite]_vars

\* One call of fetch_with_rate_limit_and_backoff.
InitFetch ==
    /\ url \in FetchUrls
    /\ max_retries \in 0..MaxRetriesArg
    /\ min_interval_s = DEFAULT_MIN_INTERVAL_S
    /\ now \in {0, 5}
    /\ LAST_HIT_PER_HOST \in {<<>>, [h \in {"a.com"} |-> 4]}
    /\ LAST_HIT_PER_HOST # <<>> => now >= 4
    /\ fpc = "rl_wait" /\ attempt = 0 /\ rec = {}
    /\ total_rl_wait = 0 /\ last_backoff = 0
    /\ fcalls = 0 /\ fsleeps = 0 /\ allRetryable = TRUE
    /\ wcalls = 0 /\ waitedHost = {} /\ unwaited = FALSE
    /\ issued = <<>> /\ lastGap = {}
    /\ ChatIdle /\ CiteIdle /\ PipeIdle

FetchOnly == UNCHANGED <<chatVars, citeVars, pipeVars>>

NextFetch ==
    \/ RateLimitWait /\ FetchOnly
    \/ \E r \in FetcherRecords(url) \cup StubRecords(url) :
          FetchCall(r) /\ FetchOnly
    \/ \E j \in {1, 3} : Backoff(j) /\ FetchOnly

SpecFetch == InitFetch /\ [][NextFetch]_vars

\* A sequential caller making several calls of the wrapper in one process,
\* with time passing; _LAST_HIT_PER_HOST starts empty
\* (rate_limit_backoff.py:14).
RateUrls ==
    FetchUrls \cup {[scheme |-> "https", netloc |-> "a.com", path |-> "/z"]}
MinIntervals == {DEFAULT_MIN_INTERVAL_S, 3}
RateRecords(u) ==
    {fetch_and_save(u, TRUE, Some([status_code |-> st, html |-> TRUE]), "") :
        st \in {200, 503}}

InitRate ==
    /\ url \in RateUrls
    /\ max_retries \in 0..1
    /\ min_interval_s \in MinIntervals
    /\ now \in {0, 1}
    /\ LAST_HIT_PER_HOST = <<>>
    /\ fpc = "rl_wait" /\ attempt = 0 /\ rec = {}
    /\ total_rl_wait = 0 /\ last_backoff = 0
    /\ fcalls = 0 /\ fsleeps = 0 /\ allRetryable = TRUE
    /\ wcalls = 0 /\ waitedHost = {} /\ unwaited = FALSE
    /\ issued = <<>> /\ lastGap = {}
    /\ ChatIdle /\ CiteIdle /\ PipeIdle

NextRate ==
    \/ RateLimitWait /\ FetchOnly
    \/ \E r \in RateRecords(url) : FetchCall(r) /\ FetchOnly
    \/ \E j \in {1, 3} : Backoff(j) /\ FetchOnly
    \/ \E u \in RateUrls, maxr \in 0..1, interval \in MinIntervals :
          NewCall(u, maxr, interval) /\ FetchOnly
    \/ Tick /\ FetchOnly

SpecRate == InitRate /\ [][NextRate]_vars

\* One call of _embed_batch on a non-empty batch (embed_texts, lines 93-104,
\* never passes an empty one).
InitEmbed ==
    /\ etexts \in SeqsUpTo(EmbedTexts, MaxBatchTexts) \ {<<>>}
    /\ EmbedStart
    /\ UpsertIdle /\ CrawlIdle /\ IndexIdle
    /\ ChatIdle /\ CiteIdle /\ FetchIdle

indexVars == <<batchVars, ingestVars, indexerVars, chunkVars, toolVars>>
EmbedOnly ==
    UNCHANGED <<chatVars, citeVars, fetchVars, upsertVars, crawlVars,
                indexVars>>

NextEmbed ==
    \/ EmbedCallOk /\ EmbedOnly
    \/ \E exc \in ProviderErrors : EmbedCallFail(exc) /\ EmbedOnly
    \/ EmbedSleep /\ EmbedOnly

SpecEmbed == InitEmbed /\ [][NextEmbed]_vars

\* One call of upsert.
ValidItem(id) ==
    [id |-> PyStr(id), vector |-> PyList(<<1, 2>>), metadata |-> PyDict("md")]
UpsertItemLists ==
    { <<ValidItem("c1")>>,
      <<ValidItem("c1"), ValidItem("c2")>>,
      <<>>,
      <<ValidItem("c1"), [id |-> PyStr("c2"), values |-> PyList(<<1, 2>>)]>>,
      <<[id |-> PyNone, vector |-> PyList(<<1, 2>>)]>>,
      <<[id |-> PyStr("c1"), vector |-> PyNone]>>,
      <<[id |-> PyStr("c1"), vector |-> PyList(<<1, 2>>),
         metadata |-> PyStr("md")]>> }
InitialBackoffs == {0, 5, 10}

InitUpsert ==
    /\ uitems \in UpsertItemLists
    /\ umax_retries \in 0..MaxUpsertRetries
    /\ uinitial_backoff_s \in InitialBackoffs
    /\ UpsertEntry
    /\ EmbedIdle /\ CrawlIdle /\ IndexIdle
    /\ ChatIdle /\ CiteIdle /\ FetchIdle

UpsertOnly ==
    UNCHANGED <<chatVars, citeVars, fetchVars, embedVars, crawlVars,
                indexVars>>

NextUpsert ==
    \/ UpsertStart /\ UpsertOnly
    \/ UpsertLoopTest /\ UpsertOnly
    \/ UpsertCallOk /\ UpsertOnly
    \/ \E exc \in UpsertErrors : UpsertCallFail(exc) /\ UpsertOnly
    \/ UpsertSleep /\ UpsertOnly

SpecUpsert == InitUpsert /\ [][NextUpsert]_vars

\* The four retry loops of the offline pipeline, each run once with a
\* dependency that fails on every call.  The loops share no state, so they
\* are run one after the other (crawler loop, fetch wrapper, embedding
\* batch, upsert) rather than interleaved.  Every step is a call that
\* returns or a sleep that ends, so a loop that can take a step eventually
\* takes one.
InitLoops ==
    /\ url \in FetchUrls
    /\ max_retries \in 0..MaxRetriesArg
    /\ min_interval_s = DEFAULT_MIN_INTERVAL_S
    /\ now = 0 /\ LAST_HIT_PER_HOST = <<>>
    /\ fpc = "rl_wait" /\ attempt = 0 /\ rec = {}
    /\ total_rl_wait = 0 /\ last_backoff = 0
    /\ fcalls = 0 /\ fsleeps = 0 /\ allRetryable = TRUE
    /\ wcalls = 0 /\ waitedHost = {} /\ unwaited = FALSE
    /\ issued = <<>> /\ lastGap = {}
    /\ etexts = <<Some("t1")>> /\ EmbedStart
    /\ uitems = <<ValidItem("c1")>>
    /\ umax_retries \in 0..MaxUpsertRetries
    /\ uinitial_backoff_s = 10
    /\ UpsertEntry
    /\ kretries \in 0..MaxCrawlRetries /\ CrawlStart /\ RunIdle
    /\ ChatIdle /\ CiteIdle /\ IndexIdle

FetchStep == UNCHANGED <<chatVars, citeVars, pipeVars>>
EmbedStep == EmbedOnly
UpsertStep == UpsertOnly
CrawlStep ==
    UNCHANGED <<chatVars, citeVars, fetchVars, embedVars, upsertVars,
                indexVars, runVars>>

CrawlStopped == kpc \in {"done", "raised"}
FetchStopped == fpc = "done"
EmbedStopped == epc \in {"returned", "raised"}
UpsertStopped == upc \in {"returned", "raised", "invalid"}

NextLoops ==
    \/ CrawlGetRequestError /\ CrawlStep
    \/ CrawlSleep /\ CrawlStep
    \/ CrawlStopped /\ RateLimitWait /\ FetchStep
    \/ \E e \in {"ConnectTimeout", "ReadTimeout"} :
          /\ CrawlStopped
          /\ FetchCall(fetch_and_save(url, TRUE, None, e))
          /\ FetchStep
    \/ \E j \in {1, 3} : CrawlStopped /\ Backoff(j) /\ FetchStep
    \/ \E exc \in ProviderErrors :
          FetchStopped /\ EmbedCallFail(exc) /\ EmbedStep
    \/ FetchStopped /\ EmbedSleep /\ EmbedStep
    \/ EmbedStopped /\ UpsertStart /\ UpsertStep
    \/ EmbedStopped /\ UpsertLoopTest /\ UpsertStep
    \/ \E exc \in UpsertErrors :
          EmbedStopped /\ UpsertCallFail(exc) /\ UpsertStep
    \/ EmbedStopped /\ UpsertSleep /\ UpsertStep

SpecLoops == InitLoops /\ [][NextLoops]_vars /\ WF_vars(NextLoops)

ServingIdle == ChatIdle /\ CiteIdle
CrawlerIdle == FetchIdle /\ CrawlIdle

\* batch_iter on every stream of up to MaxStream elements.
InitBatch ==
    /\ bstream \in SeqsUpTo({"a", "b"}, MaxStream)
    /\ bsize \in 1..MaxBatchSize
    /\ bout = {}
    /\ IngestIdle /\ IndexerIdle /\ ChunkIdle /\ EmbedIdle /\ UpsertIdle
    /\ ToolIdle
    /\ ServingIdle /\ CrawlerIdle

NextBatch ==
    CallBatchIter /\ UNCHANGED <<chatVars, citeVars, fetchVars, embedVars,
                                 upsertVars, crawlVars, ingestVars,
                                 indexerVars, chunkVars, toolVars>>

SpecBatch == InitBatch /\ [][NextBatch]_vars

\* One call of ingest_file on a file of up to MaxChunks JSON objects.
IngestChunks ==
    { [id |-> Some("c1"), text |-> Some("t1"), title |-> Some("T")],
      [id |-> Some("c2"), text |-> Some("t2"), title |-> None],
      [id |-> Some("c3"), title |-> Some("T")],
      [id |-> Some("c4"), text |-> None],
      [text |-> Some("t5")] }

InitIngest ==
    /\ ichunks \in SeqsUpTo(IngestChunks, MaxChunks)
    /\ ibatch_size \in 1..MaxBatchSize
    /\ IngestStart
    /\ BatchIdle /\ IndexerIdle /\ ChunkIdle /\ EmbedIdle /\ UpsertIdle
    /\ ToolIdle
    /\ ServingIdle /\ CrawlerIdle

IngestOnly ==
    UNCHANGED <<chatVars, citeVars, fetchVars, embedVars, upsertVars,
                crawlVars, batchVars, indexerVars, chunkVars, toolVars>>

NextIngest ==
    \/ IngestNextBatch /\ IngestOnly
    \/ \E up \in {"ok"} \cup UpsertErrors : IngestEmbedded(up) /\ IngestOnly
    \/ \E exc \in ProviderErrors : IngestEmbedFail(exc) /\ IngestOnly

SpecIngest == InitIngest /\ [][NextIngest]_vars

\* One run of the indexer script over a directory of up to MaxFiles files.
IngestResults ==
    { [kind |-> "return", ok |-> 1, err |-> 0],
      [kind |-> "return", ok |-> 0, err |-> 2],
      [kind |-> "raise", value |-> "ConnectionError"] }

InitIndexer ==
    /\ \E found \in SUBSET (1..MaxFiles) : xfiles = iter_jsonl_files(found)
    /\ IndexerStart
    /\ BatchIdle /\ IngestIdle /\ ChunkIdle /\ EmbedIdle /\ UpsertIdle
    /\ ToolIdle
    /\ ServingIdle /\ CrawlerIdle

IndexerOnly ==
    UNCHANGED <<chatVars, citeVars, fetchVars, embedVars, upsertVars,
                crawlVars, batchVars, ingestVars, chunkVars, toolVars>>

NextIndexer ==
    \/ \E res \in IngestResults : IndexerIngest(res) /\ IndexerOnly
    \/ IndexerSummary /\ IndexerOnly

SpecIndexer == InitIndexer /\ [][NextIndexer]_vars

\* make_chunks on a set of parsed pages.
RECURSIVE Rep(_, _)
Rep(c, n) ==
    IF n = 0 THEN ""
    ELSE IF n % 2 = 1 THEN c \o Rep(c, n - 1)
    ELSE LET h == Rep(c, n \div 2) IN h \o h


\* 600 tokens, 1001 tokens, and a code block of more than 1000 tokens
MidText == Rep("m", 2400)
\* an H2 body with which the H2 "A" and one H3 "K" make 4000 characters,
\* exactly HARD_TOKENS
EdgeText == Rep("e", 1592)
BigText == Rep("b", 4004)
BigCode == [type |-> "code", language |-> Some("py"),
            content |-> Rep("c", 4000)]

H3Nodes ==
    { Section(3, Some("K"), Some("k"), <<Paragraph(MidText)>>, <<>>),
      Section(3, Some("K"), None, <<Paragraph(MidText)>>, <<>>),
      Section(3, Some("S"), Some("s"), <<Paragraph("z")>>, <<>>),
      Section(3, None, None, <<BigCode>>, <<>>),
      Section(3, Some("  "), Some("e"), <<Paragraph("")>>, <<>>) }
Bodies ==
    { <<>>,
      <<Paragraph("s"), [type |-> "list", items |-> <<"x", "y">>]>>,
      <<Paragraph(EdgeText)>>,
      <<Paragraph(BigText)>> }
\* the child lists of up to MaxChildren sections, and two longer ones: an
\* H3 that comes back after a small one, and a code block over the budget
\* followed by two small sections
ChildLists ==
    SeqsUpTo(H3Nodes, MaxChildren)
    \cup { << Section(3, Some("K"), Some("k"), <<Paragraph(MidText)>>, <<>>),
              Section(3, Some("S"), Some("s"), <<Paragraph("z")>>, <<>>),
              Section(3, Some("K"), Some("k"), <<Paragraph(MidText)>>, <<>>) >>,
            << Section(3, None, None, <<BigCode>>, <<>>),
              Section(3, Some("S"), Some("s"), <<Paragraph("z")>>, <<>>),
              Section(3, Some("S"), None, <<Paragraph("y")>>, <<>>) >> }
H2Nodes ==
    { Section(2, Some("A"), anchor, blocks, children) :
        anchor \in {None, Some("a")}, blocks \in Bodies,
        children \in ChildLists }
H1Nodes ==
    { Section(1, Some("Title"), anchor, blocks, children) :
        anchor \in {None, Some("top")}, blocks \in Bodies,
        children \in ChildLists }
SectionLists ==
    { <<Section(1, Some("Title"), Some("top"), <<>>, <<h2>>)>> :
        h2 \in H2Nodes }
    \cup { <<h2, h2>> : h2 \in H2Nodes }
    \cup { <<h2, [h2 EXCEPT !.anchor = None]>> : h2 \in H2Nodes }
    \cup { <<h1>> : h1 \in H1Nodes }
    \cup ChildLists
Pages ==
    { [provenance |-> [url_final |-> "https://x/p", title |-> Some("P"),
                       fetched_at |-> Some("2025")],
       sections |-> secs] : secs \in SectionLists }

InitChunk ==
    /\ page \in Pages
    /\ chunks = {}
    /\ page2 = EmptyPage /\ chunks2 = {}
    /\ ParseIdle
    /\ BatchIdle /\ IngestIdle /\ IndexerIdle /\ EmbedIdle /\ UpsertIdle
    /\ ToolIdle
    /\ ServingIdle /\ CrawlerIdle

ChunkOnly == UNCHANGED <<chatVars, citeVars, fetchVars, embedVars,
                         upsertVars, crawlVars, batchVars, ingestVars,
                         indexerVars, toolVars, parseVars>>

NextChunk ==
    \/ CallMakeChunks /\ ChunkOnly
    \/ \E j \in 0..MaxSections : CallMakeChunksAgain(j) /\ ChunkOnly

SpecChunk == InitChunk /\ [][NextChunk]_vars

\* The parser fed token by token, then parse_document and make_chunks on
\* what it wrote.
InitParse ==
    /\ ppc = "feeding"
    /\ feed \in HtmlPages \cup {<<>>}
    /\ left = IF feed = <<>> THEN MaxParseEvents ELSE 0
    /\ parser = NewParser /\ deep = None /\ open_skips = NoSkips
    /\ pdoc = {} /\ pchunks = {}
    /\ page = EmptyPage /\ chunks = {} /\ page2 = EmptyPage /\ chunks2 = {}
    /\ BatchIdle /\ IngestIdle /\ IndexerIdle /\ EmbedIdle /\ UpsertIdle
    /\ ToolIdle
    /\ ServingIdle /\ CrawlerIdle

ParseOnly == UNCHANGED <<chatVars, citeVars, fetchVars, embedVars,
                         upsertVars, crawlVars, batchVars, ingestVars,
                         indexerVars, toolVars, page, chunks, page2,
                         chunks2>>

NextParse ==
    \/ \E tok \in {t \in ParseTokens : t.kind = "start"} :
           FeedStartTag(tok.tag, tok.attrs) /\ ParseOnly
    \/ \E tok \in {t \in ParseTokens : t.kind = "end"} :
           FeedEndTag(tok.tag) /\ ParseOnly
    \/ \E tok \in {t \in ParseTokens : t.kind = "data"} :
           FeedData(tok.data) /\ ParseOnly
    \/ ParseDocument /\ ParseOnly
    \/ ChunkParsed /\ ParseOnly

SpecParse == InitParse /\ [][NextParse]_vars

\* helper_no_null on lists of up to MaxSanitizeItems items whose metadata
\* hold values of every kind the function tells apart.
SanitizeValues ==
    { PyNone, PyStr("t"), PyStr(""), PyInt(3), PyFloat("1.5"), PyBool(TRUE),
      PyList(<<PyStr("a"), PyNone, PyInt(2), PyBool(FALSE)>>),
      PyList(<<>>),
      PyDict(<<<<"a", PyInt(1)>>, <<"b", PyNone>>>>),
      PyTuple(<<PyInt(1), PyStr("x")>>),
      PySet({PyInt(1)}) }
SanitizeKeys == {"title", "section_level"}
SanitizeMetadata ==
    UNION { [ks -> SanitizeValues] : ks \in SUBSET SanitizeKeys }
SanitizeItems ==
    { [id |-> PyStr("c1"), values |-> PyList(<<1, 2>>),
       metadata |-> PyDict(md)] : md \in SanitizeMetadata }

IndexStagesIdle ==
    BatchIdle /\ IngestIdle /\ IndexerIdle /\ ChunkIdle /\ EmbedIdle
        /\ UpsertIdle

InitSanitize ==
    /\ sitems \in SeqsUpTo(SanitizeItems, MaxSanitizeItems)
    /\ sresult = {}
    /\ NormIdle /\ FilterIdle
    /\ IndexStagesIdle /\ ServingIdle /\ CrawlerIdle

StagesUnchanged ==
    UNCHANGED <<chatVars, citeVars, fetchVars, embedVars, upsertVars,
                crawlVars, batchVars, ingestVars, indexerVars, chunkVars>>

NextSanitize ==
    CallHelperNoNull /\ StagesUnchanged /\ UNCHANGED <<normVars, filterVars>>

SpecSanitize == InitSanitize /\ [][NextSanitize]_vars

\* normalize_url on raw URLs put together from a scheme, an authority, a
\* path, a query and a fragment, any of which may be missing or odd.
NormSchemes == {"", "https:", "HTTP:", "ftp:"}
NormAuthorities == {"", "//A.com", "//"}
NormPaths ==
    {"", "/", "/docs", "/docs/", "/x.y", "/a%20b", "/%2F", "/%252F",
     "/a%2Fb/", "/%41", "/%zz", "/a b", "//x"}
NormQueries ==
    {"", "?", "?k=v", "?utm_source=1", "?utm_source=1&k=v", "?&k=v&",
     "?ref=x&&gclid=2", "?K=%2F"}
NormFragments == {"", "#", "#frag"}
NormInputs ==
    { s \o a \o p \o q \o f :
        s \in NormSchemes, a \in NormAuthorities, p \in NormPaths,
        q \in NormQueries, f \in NormFragments }

InitNorm ==
    /\ nraw \in NormInputs
    /\ nonce = {} /\ ntwice = {}
    /\ SanitizeIdle /\ FilterIdle
    /\ IndexStagesIdle /\ ServingIdle /\ CrawlerIdle

NormOnly == StagesUnchanged /\ UNCHANGED <<sanitizeVars, filterVars>>

NextNorm ==
    \/ CallNormalize /\ NormOnly
    \/ CallNormalizeAgain /\ NormOnly

SpecNorm == InitNorm /\ [][NextNorm]_vars

\* One run of a new Crawler over the site of WebPage, with one seed group.
\* Every GET may return a response, raise a network error or raise another
\* exception.
CrawlStatuses == {200, 503}
\* 1 / rate_per_host in tenths of a second: the default rate, and one
\* request every two seconds
RateIntervals == {10 \div DEFAULT_RATE, 20}

InitCrawl ==
    /\ rpc = "idle"
    /\ rseeds \in CrawlSeedLists
    /\ rmax_depth \in 0..MaxDepth
    /\ rqueue = <<>> /\ rcur = {} /\ rvisited = {} /\ rsaved = <<>>
    /\ rindex = <<>>
    /\ rtotals = [downloaded |-> 0, skipped |-> 0, failed |-> 0]
    /\ rrobots = <<>> /\ rhost_rate = <<>>
    /\ rinterval \in RateIntervals
    /\ rlatency \in 1..MaxLatency
    /\ rsince = <<>> /\ rlast_gap = {}
    /\ rrobots_gets = <<>> /\ rgets = {}
    /\ renqueued = <<>> /\ rdequeued = <<>>
    /\ kpc = "idle" /\ kretries \in 0..MaxCrawlRetries /\ kattempt = 0
    /\ kresp = {} /\ klog = <<>> /\ ksleeps = <<>>
    /\ FetchIdle /\ ServingIdle /\ ToolIdle
    /\ IndexStagesIdle

RunOnly ==
    UNCHANGED <<chatVars, citeVars, fetchVars, embedVars, upsertVars,
                indexVars>>

NextCrawl ==
    \/ CrawlRun /\ RunOnly
    \/ \E robots \in RobotsOutcomes : CrawlDequeue(robots) /\ RunOnly
    \/ \E status \in CrawlStatuses :
           CrawlGetOk(status) /\ PageGet /\ RunOnly
    \/ CrawlGetRequestError /\ PageGet /\ RunOnly
    \/ CrawlGetRaise /\ PageGet /\ RunOnly
    \/ CrawlSleep /\ RetrySlept /\ RunOnly
    \/ CrawlProcess /\ RunOnly
    \/ CrawlFinish /\ RunOnly

SpecCrawl == InitCrawl /\ [][NextCrawl]_vars

\* filters on lists of URLs: every URL of FilterUrls alone, and lists of up
\* to MaxFilterUrls URLs of FilterListUrls, which has one URL or more for
\* each decision.
FilterHosts ==
    {"python.langchain.com", "Python.LangChain.com", "docs.langchain.com",
     "evil.example.com"}
FilterPaths ==
    {"", "/", "/docs/how_to/foo/", "/blog/foo/", "/docs/how_to/x.pdf",
     "/docs/how_to/X.PDF", "/static/logo.svg", "/docs/how_to/search/",
     "/langsmith/a/", "/docs/concepts", "/docs/how_to/x.json",
     "/api_reference/a.b/c"}
FilterQueries == {"", "?q=rag", "?page=2", "?Q=1"}
FilterUrls ==
    { "https://" \o h \o p \o q :
        h \in FilterHosts, p \in FilterPaths, q \in FilterQueries }
FilterListUrls ==
    {"https://evil.example.com/docs/how_to/x/",
     "https://python.langchain.com/docs/how_to/foo/",
     "https://python.langchain.com/blog/foo/",
     "https://python.langchain.com/static/logo.svg",
     "https://docs.langchain.com/langsmith/a/?q=rag"}

InitFilter ==
    /\ furls \in {<<u>> : u \in FilterUrls}
                 \cup SeqsUpTo(FilterListUrls, MaxFilterUrls)
    /\ fresult = {}
    /\ SanitizeIdle /\ NormIdle
    /\ IndexStagesIdle /\ ServingIdle /\ CrawlerIdle

NextFilter ==
    CallFilters /\ StagesUnchanged /\ UNCHANGED <<sanitizeVars, normVars>>

SpecFilter == InitFilter /\ [][NextFilter]_vars

(***************************************************************************)
(* Properties of respond_stream and the /chat handler (SpecChat).          *)
(***************************************************************************)
NonEmptyToken(t) == t # ""
\* the chunk events owed for the tokens generated so far
ChunkEventsOf(tokens) ==
    LET kept == SelectSeq(tokens, NonEmptyToken)
    IN  [i \in 1..Len(kept) |-> [chunk |-> kept[i]]]

\* C1: in every execution of respond_stream at most one terminal event (an
\* error event or a done event) is emitted, and no event of any kind is
\* emitted after it: a terminal event is always the last event so far.
C1_TerminalEventIsLast ==
    \A i \in 1..Len(events) : IsTerminal(events[i]) => i = Len(events)

\* C1 witness: a stream of chunk events closed by its terminal event, with
\* the generator finished.
C1_Witness ==
    /\ pc = "returned"
    /\ Len(events) >= 2
    /\ IsChunk(events[1])
    /\ IsTerminal(events[Len(events)])

\* C2: when a valid message is given, retrieval succeeds and generation
\* completes, the events are one {chunk} event per non-empty generated
\* token, in generation order, followed by exactly one {done, citations}
\* event carrying the citations built from the retrieved passages.
C2_HappyPathStream ==
    outcome.kind = "completed" =>
        events = ChunkEventsOf(generated)
                 \o <<[done |-> TRUE,
                       citations |-> build_citations_from_docs(docs)]>>

\* C2 witness: a completed request whose model produced an empty and a
\* non-empty token and whose passages gave a citation.
C2_Witness ==
    /\ outcome.kind = "completed"
    /\ cancelledAt = "no"
    /\ pc = "returned"
    /\ \E i \in 1..Len(generated) : generated[i] = ""
    /\ \E i \in 1..Len(generated) : generated[i] # ""
    /\ Len(docs) = 2
    /\ Len(citations) = 1

\* C3: if retrieval raises, the stream consists of exactly one event, an
\* error event carrying the underlying error detail, and the chat model is
\* never invoked.
C3_RetrievalFailureStream ==
    outcome.kind = "retrieval_raised" =>
        /\ Len(events) = 1
        /\ IsError(events[1])
        /\ "detail" \in DOMAIN events[1]
        /\ events[1].detail = outcome.detail
        /\ calls.chain = 0
        /\ generated = <<>>

\* C3 witness: retrieval raised and the generator has finished.
C3_Witness ==
    /\ outcome.kind = "retrieval_raised"
    /\ calls.retrieve = 1
    /\ pc = "returned"

\* a message that lacks a role or a content (missing, None or empty)
LacksRoleOrContent(m) ==
    m.role \in {None, Some("")} \/ m.content \in {None, Some("")}

\* C4: if every incoming message lacks a role or a content, then once the
\* generator has been advanced the sole event of the stream is the "no valid
\* messages" error event, and neither retrieval nor generation is invoked.
C4_NoValidMessages ==
    ( /\ \A i \in 1..Len(messages) : LacksRoleOrContent(messages[i])
      /\ pc \notin {"start", "idle"}
      /\ cancelledAt # "start" ) =>
        /\ events = <<[type |-> "error",
                       message |-> "No se recibieron mensajes validos."]>>
        /\ calls = [retrieve |-> 0, chain |-> 0]

\* C4 witness: two messages, one without role and one without content, and
\* the generator finished.
C4_Witness ==
    /\ Len(messages) = 2
    /\ messages[1].role = None
    /\ messages[2].role # None /\ messages[2].content = None
    /\ pc = "returned"

\* C5: if generation fails after j >= 0 chunk events, those j chunk events
\* remain, the next and last event is a single error event, and no done
\* event is emitted.
C5_GenerationFailureStream ==
    outcome.kind = "generation_raised" =>
        LET n == Len(events)
        IN  /\ n >= 1
            /\ SubSeq(events, 1, n - 1) = ChunkEventsOf(generated)
            /\ IsError(events[n])
            /\ events[n].detail = outcome.detail
            /\ \A i \in 1..n : ~IsDone(events[i])

\* C5 witness: generation failed after a chunk event was delivered.
C5_Witness ==
    /\ outcome.kind = "generation_raised"
    /\ Len(events) >= 2
    /\ IsChunk(events[1])
    /\ pc = "returned"

\* C6: if the consumer cancels at any suspension point, no further event is
\* emitted by the engine or framed by the handler, at the cancellation or
\* after it, and the handler does not raise.
C6_CancelIsSilent ==
    [][cancelledAt' # "no" =>
          /\ events' = events
          /\ frames' = frames
          /\ hpc' # "raised"]_vars

\* C6 witness: the consumer cancelled between two tokens, after a chunk
\* event had been framed; the handler returned.
C6_Witness ==
    /\ cancelledAt = "await_token"
    /\ Len(frames) >= 1
    /\ pc = "returned" /\ hpc = "returned"

(***************************************************************************)
(* Properties of build_citations_from_docs (SpecCite).                     *)
(***************************************************************************)
\* the URL of a passage as the claim words it: url_citable when there is
\* one, else url_final
PassageUrl(d) ==
    IF d.metadata.url_citable \notin {None, Some("")}
    THEN d.metadata.url_citable ELSE d.metadata.url_final
HasUrl(d) == PassageUrl(d) \notin {None, Some("")}
\* index of the first passage with URL u
FirstWithUrl(ds, u) ==
    CHOOSE j \in 1..Len(ds) :
        /\ HasUrl(ds[j]) /\ PassageUrl(ds[j]) = {u}
        /\ \A k \in 1..(j - 1) : ~(HasUrl(ds[k]) /\ PassageUrl(ds[k]) = {u})
PassageUrls(ds) ==
    {u \in UNION {PassageUrl(ds[j]) : j \in 1..Len(ds)} : u # ""}

\* C7: build_citations_from_docs returns, in retrieval order, exactly one
\* citation per distinct URL among the passages that have a URL (url_citable
\* preferred over url_final); its title is the title of the first passage
\* with that URL, or "Fuente" when that passage has no title; there are
\* never more citations than passages.
C7_CitationsPerDistinctUrl ==
    \A c \in cout :
        /\ {c[i].url : i \in 1..Len(c)} = PassageUrls(cdocs)
        /\ Len(c) = Cardinality(PassageUrls(cdocs))
        /\ \A i, j \in 1..Len(c) :
              i < j => FirstWithUrl(cdocs, c[i].url)
                       < FirstWithUrl(cdocs, c[j].url)
        /\ \A i \in 1..Len(c) :
              LET t == cdocs[FirstWithUrl(cdocs, c[i].url)].metadata.title
              IN  c[i].title = IF t \in {None, Some("")} THEN "Fuente"
                               ELSE CHOOSE x \in t : TRUE
        /\ Len(c) <= Len(cdocs)

\* C7 witness: two passages with the same URL (one through url_citable, one
\* through url_final) and different titles gave one citation; and a passage
\* list with a URL-less passage.
C7_Witness ==
    /\ cout # {}
    /\ Len(cdocs) = 2
    /\ cdocs[1].metadata.url_citable = Some("u1")
    /\ cdocs[1].metadata.url_final = Some("u3")
    /\ cdocs[2].metadata.url_citable = None
    /\ cdocs[2].metadata.url_final = Some("u1")
    /\ cdocs[1].metadata.title = Some("T1")
    /\ cdocs[2].metadata.title = Some("T2")
    /\ cout = {<<[title |-> "T1", url |-> "u1"]>>}

(***************************************************************************)
(* Properties of fetch_with_rate_limit_and_backoff (SpecFetch).            *)
(***************************************************************************)
\* C8: when fetch_fn returns a retryable failure on every call, the wrapper
\* calls fetch_fn exactly max_retries + 1 times, sleeps one backoff before
\* each of the max_retries retries, and returns a record whose `retries`
\* field equals max_retries.
C8_RetryCap ==
    (fpc = "done" /\ allRetryable) =>
        /\ fcalls = max_retries + 1
        /\ fsleeps = max_retries
        /\ \A r \in rec : r.retries = max_retries

\* C8 witness: max_retries = 3, four calls all retryable, three sleeps.
C8_Witness ==
    /\ fpc = "done" /\ allRetryable
    /\ max_retries = DEFAULT_MAX_RETRIES
    /\ fcalls = 4 /\ fsleeps = 3

\* the returned record without the wrapper's diagnostic fields
Unannotated(r) ==
    [r EXCEPT !.rl_wait_s_total = 0, !.retries = 0, !.last_backoff_s = 0]

\* C9: whenever the wrapper stops because the retry budget is exhausted
\* (every attempt a retryable failure), the error field of the returned
\* record is retry_exhausted_after_<max_retries>; stated here for the case
\* the claim names: the fetcher's records for status 503, max_retries = 3.
C9_ExhaustionMarked ==
    (fpc = "done" /\ allRetryable /\ max_retries = DEFAULT_MAX_RETRIES) =>
        \A r \in rec :
            ( /\ Unannotated(r) \in FetcherRecords(url)
              /\ r.status_code = Some(503) ) =>
                r.error = Some("retry_exhausted_after_"
                               \o ToString(max_retries))

\* the claim's retry condition on a record
RetryDeclared(r) ==
    /\ ~(r.status_code = {200} /\ r.html_crudo_path \notin {None, Some("")})
    /\ \/ r.status_code = {429}
       \/ \E st \in r.status_code : st \in 500..599
       \/ \E e \in r.error :
             Len(e) >= 8 /\ SubSeq(e, 1, 8) = "network:"
\* robots-disallowed, non-HTML and other-4xx records
NeverRetriedKind(r) ==
    \/ r.error = Some("robots_disallow")
    \/ r.error = Some("non_html")
    \/ \E st \in r.status_code : st \in 400..499 /\ st # 429

\* C10: should_retry is true exactly when the record is not a clean success
\* and its status is 429 or in 500..599 or its error is tagged network:.
\* The wrapper goes on to another attempt only for such a record, stops on
\* such a record only when the budget is used up, and robots-disallowed,
\* non-HTML and other-4xx records end the loop at once (one fetch_fn call
\* when they are the first answer).
C10_RetryDecision ==
    \A r \in rec :
        /\ should_retry(r) <=> RetryDeclared(r)
        /\ fpc = "backoff" => RetryDeclared(r)
        /\ (fpc = "done" /\ RetryDeclared(r)) => attempt >= max_retries
        /\ NeverRetriedKind(r) => fpc = "done" /\ fcalls = attempt + 1
        /\ (NeverRetriedKind(r) /\ attempt = 0) => fcalls = 1

\* C10 witness: a 404 from the fetcher ended the loop after one call, with
\* retries to spare.
C10_Witness ==
    /\ fpc = "done"
    /\ fcalls = 1
    /\ max_retries = DEFAULT_MAX_RETRIES
    /\ \E r \in rec : r.status_code = Some(404) /\ r.error = Some("http_404")

(***************************************************************************)
(* Properties of the per-host rate limit (SpecRate).                       *)
(***************************************************************************)
\* C11: every fetch_fn call is preceded by a rate-limit wait for its host;
\* two consecutive fetch_fn calls to the same host are at least
\* min_interval_s apart; and each wait sets the host's last hit to the
\* time at which it returns, leaving the other hosts' entries as they were.
C11_RateLimitSpacing ==
    /\ [](~unwaited /\ \A g \in lastGap : g.gap >= g.interval)
    /\ [][fpc = "rl_wait" /\ fpc' = "fetch" =>
             LET host == host_from_url(url)
             IN  /\ DOMAIN LAST_HIT_PER_HOST' =
                        DOMAIN LAST_HIT_PER_HOST \cup {host}
                 /\ LAST_HIT_PER_HOST'[host] = now'
                 /\ \A h \in DOMAIN LAST_HIT_PER_HOST \ {host} :
                        LAST_HIT_PER_HOST'[h] = LAST_HIT_PER_HOST[h]]_vars

\* A later call to a host already hit had to sleep, and was issued exactly
\* min_interval_s after the previous one, with another host on record.
C11_Witness ==
    /\ wcalls >= 1
    /\ total_rl_wait > 0
    /\ \E g \in lastGap : g.gap = g.interval
    /\ Cardinality(DOMAIN LAST_HIT_PER_HOST) = 2
    /\ fpc = "done"

(***************************************************************************)
(* Termination of the retry loops (SpecLoops).                             *)
(***************************************************************************)
LoopsStopped ==
    CrawlStopped /\ FetchStopped /\ EmbedStopped /\ UpsertStopped

\* C12: with a dependency that fails on every call, the fetch wrapper, the
\* embedding batch call, the upsert and the crawler's fetch loop each
\* eventually stop.
C12_RetryLoopsTerminate == <>LoopsStopped

\* All four loops stopped after using up their attempts.
C12_Witness ==
    /\ LoopsStopped
    /\ max_retries = MaxRetriesArg /\ fcalls = max_retries + 1
    /\ epc = "raised" /\ ecalls = EMBED_MAX_RETRIES
    /\ umax_retries = MaxUpsertRetries /\ upc = "raised"
    /\ Len(ucallLog) = umax_retries + 1
    /\ kretries = MaxCrawlRetries /\ kattempt = kretries /\ kresp = {}

(***************************************************************************)
(* Properties of upsert (SpecUpsert).                                      *)
(***************************************************************************)
\* upsert applied to valid items: calls, result and sleeps, the first sleep
\* being `first`
UpsertRetryContract(first) ==
    UpsertValidationError(uitems) = {} =>
        /\ Len(ucallLog) <= umax_retries + 1
        /\ \A i \in 1..Len(ucallLog) - 1 : ucallLog[i] # "ok"
        /\ \A i \in 1..Len(usleeps) : usleeps[i] = first * 2 ^ (i - 1)
        /\ upc \in {"returned", "raised"} =>
               Len(usleeps) = Len(ucallLog) - 1
        /\ upc = "returned" =>
               /\ ucallLog[Len(ucallLog)] = "ok"
               /\ uresult = {[kind |-> "return", value |-> Len(uitems)]}
        /\ upc = "raised" =>
               /\ Len(ucallLog) = umax_retries + 1
               /\ ucallLog[Len(ucallLog)] # "ok"
               /\ uresult = {[kind |-> "raise",
                              value |-> ucallLog[Len(ucallLog)]]}

C15_EmbedRetries ==
    /\ epc = "raised" =>
           /\ ecalls = 1 + 5
           /\ esleeps = <<1, 2, 4, 8, 16>>
           /\ \E exc \in ProviderErrors :
                  eresult = {[kind |-> "raise", value |-> exc]}
    /\ epc = "returned" =>
           /\ eresult = {[kind |-> "return",
                          value |-> ProviderVectors(etexts, ecalls)]}
           /\ Len(esleeps) = ecalls - 1

(***************************************************************************)
(* Properties of the indexer script (SpecIndexer).                         *)
(***************************************************************************)
\* C13: when the script ends, ingest_file has been invoked once for every
\* file found, in sorted order, whatever happened to each file, and the
\* summary has been produced.
C13_EveryFileIngested ==
    xpc \in {"done", "raised"} =>
        /\ xinvoked = xfiles
        /\ xpc = "done"
        /\ \E sm \in summary : DOMAIN sm = {"files", "ok", "errors"}

(***************************************************************************)
(* Properties of batch_iter (SpecBatch).                                   *)
(***************************************************************************)
RECURSIVE Flatten(_)
Flatten(lists) ==
    IF Len(lists) = 0 THEN <<>> ELSE Head(lists) \o Flatten(Tail(lists))

\* C16: every list yielded has at most batch_size elements, every list but
\* the last has exactly batch_size, and the lists concatenated are the
\* input.
C16_BatchesWithinSize ==
    \A out \in bout :
        /\ \A i \in 1..Len(out) : Len(out[i]) <= bsize
        /\ \A i \in 1..Len(out) - 1 : Len(out[i]) = bsize
        /\ Flatten(out) = bstream

(***************************************************************************)
(* Properties of ingest_file (SpecIngest).                                 *)
(***************************************************************************)
Ingestable(c) == HasText(c) /\ Truthy(Get(c, "id"))
ItemIds(items) == [i \in 1..Len(items) |-> Some(items[i].id.value)]
IsPrefix(a, b) == Len(a) <= Len(b) /\ a = SubSeq(b, 1, Len(a))

\* C17: on a file whose objects all have a string text and a non-empty id,
\* with the provider and the vector store succeeding, ingest_file gives
\* upsert items that pass its validation, upserts every chunk once, and
\* returns (n, 0).
C17_AllValidIngested ==
    (/\ \A i \in 1..Len(ichunks) : Ingestable(ichunks[i])
     /\ ~idepFailed
     /\ ipc \in {"returned", "raised"}) =>
        /\ \A k \in 1..Len(isent) : UpsertValidationError(isent[k]) = {}
        /\ ItemIds(Flatten(isubmitted)) =
               [i \in 1..Len(ichunks) |-> ichunks[i].id]
        /\ iresult = {[kind |-> "return", ok |-> Len(ichunks), err |-> 0]}

PageNodes(pg) ==
    LET tops == {pg.sections[i] : i \in 1..Len(pg.sections)}
        Kids(n) == {n.children[i] : i \in 1..Len(n.children)}
        second == UNION {Kids(n) : n \in tops}
        third == UNION {Kids(n) : n \in second}
    IN  tops \cup second \cup third \cup {first_h1_or_root(pg.sections)}

\* C19: every chunk is within 1000 tokens, or is anchored to one section
\* that is not an H2 and whose own rendered text exceeds 1000 tokens.
C19_ChunkBudget ==
    \A out \in chunks : \A i \in 1..Len(out) :
        \/ estimate_tokens(out[i].text) <= 1000
        \/ /\ out[i].section_level # 2
           /\ \E n \in PageNodes(page) :
                 /\ n.level = out[i].section_level
                 /\ RenderSection(n).text = out[i].text

\* C20: no two chunks returned have the same text and anchor, and the
\* sequence numbers in the ids run 0, 1, 2, ... over the chunks returned: a
\* dropped duplicate used none.
C20_NoDuplicateChunks ==
    \A out \in chunks :
        /\ \A i, j \in 1..Len(out) :
              i # j => <<out[i].text, out[i].section_anchor>> #
                       <<out[j].text, out[j].section_anchor>>
        /\ \A i \in 1..Len(out) :
              out[i].id = chunk_id(page.provenance.url_final,
                                   out[i].section_anchor, i - 1)

\* Two H2 sections alike but for the anchor, each with the same H3 child
\* twice: the repeated sub-chunks are dropped and four chunks are returned.
C20_Witness ==
    /\ Len(page.sections) = 2
    /\ page.sections[1].level = 2
    /\ page.sections[1].anchor = Some("a")
    /\ page.sections[2] = [page.sections[1] EXCEPT !.anchor = None]
    /\ Len(page.sections[1].children) = 2
    /\ page.sections[1].children[1] = page.sections[1].children[2]
    /\ \E out \in chunks : Len(out) = 4

C22_IdsStableUnderEdit ==
    (chunks2 # {} /\ page2 # page) =>
        \A a \in chunks, b \in chunks2 :
            /\ Len(a) = Len(b)
            /\ \A i \in 1..Len(a) :
                  /\ b[i].id = a[i].id
                  /\ [b[i] EXCEPT !.text = a[i].text] = a[i]

\* the children of a section whose rendered text is not empty
NonEmptyKids(node) ==
    SelectSeq(node.children, LAMBDA c : Strip(RenderSection(c).text) # "")

\* the accumulator after folding kids[i], kids[i+1], ... while they fit,
\* and k, the position of the first one that does not (Len(kids) + 1 if
\* all fit)
RECURSIVE FoldWhileFits(_, _, _, _)
FoldWhileFits(kids, i, text, has_code) ==
    IF i > Len(kids) THEN [k |-> i, text |-> text, has_code |-> has_code]
    ELSE LET r == RenderSection(kids[i])
             sep == IF text # "" /\ r.text # "" THEN "\n\n" ELSE ""
             combined == Strip(text \o sep \o r.text)
         IN  IF estimate_tokens(combined) <= 1000
             THEN FoldWhileFits(kids, i + 1, combined,
                                has_code \/ r.has_code)
             ELSE [k |-> i, text |-> text, has_code |-> has_code]

\* fold or cut for one section: its accumulator as one chunk, then each
\* child from the first that does not fit as a chunk of its own
FoldOrCut(st, pg, node, chain) ==
    LET kids == NonEmptyKids(node)
        r == RenderSection(node)
        f == FoldWhileFits(kids, 1, r.text, r.has_code)
        st1 == emit_chunk(st, pg, node, chain, f.text, f.has_code)
    IN  emit_h3_subchunks(st1, pg, node, SubSeq(kids, f.k, Len(kids)))

RECURSIVE FoldOrCutAll(_, _, _)
FoldOrCutAll(st, pg, h2_nodes) ==
    IF Len(h2_nodes) = 0 THEN st
    ELSE FoldOrCutAll(FoldOrCut(st, pg, Head(h2_nodes).node,
                                Head(h2_nodes).chain),
                      pg, Tail(h2_nodes))

NoChunks == [out |-> <<>>, seen_keys |-> {}, seq |-> 0]

\* C27: on a page with H2 sections, each H2 gives one chunk holding its text
\* and its children in order if they all fit; otherwise the accumulator up
\* to the first child that does not fit, as a chunk anchored to the H2, and
\* then that child and each later one as a chunk of its own, in order.
C27_FoldOrCutPerH2 ==
    LET h2_nodes == iter_h2_nodes(page.sections, <<>>)
    IN  Len(h2_nodes) > 0 =>
            \A out \in chunks :
                out = FoldOrCutAll(NoChunks, page, h2_nodes).out

\* C28: on a page without H2 sections the children of the H1 (or of the
\* root) are folded or cut as H3 children are under an H2.
C28_FallbackLikeH3 ==
    Len(iter_h2_nodes(page.sections, <<>>)) = 0 =>
        \A out \in chunks :
            out = FoldOrCut(NoChunks, page, first_h1_or_root(page.sections),
                            <<>>).out

\* every section of a page with the chain of all its ancestors, outermost
\* first, and the synthetic root
NodeChains(pg) ==
    LET Kids(nc) == {[node |-> nc.node.children[i],
                      chain |-> Append(nc.chain, nc.node)] :
                        i \in 1..Len(nc.node.children)}
        tops == {[node |-> pg.sections[i], chain |-> <<>>] :
                    i \in 1..Len(pg.sections)}
        second == UNION {Kids(nc) : nc \in tops}
        third == UNION {Kids(nc) : nc \in second}
    IN  tops \cup second \cup third
            \cup {[node |-> first_h1_or_root(pg.sections), chain |-> <<>>]}

\* C29: the anchor of a chunk is that of its section, else that of the
\* nearest ancestor having one, up to the top-level section, else none; and
\* url_citable is the final URL with #anchor exactly when there is one.
C29_AnchorFromNearestAncestor ==
    \A out \in chunks : \A i \in 1..Len(out) :
        /\ \E nc \in NodeChains(page) :
              /\ nc.node.level = out[i].section_level
              /\ nc.node.heading_text = out[i].section_heading
              /\ out[i].section_anchor = ascend_anchor(nc.node, nc.chain)
        /\ out[i].url_citable =
              IF Truthy(out[i].section_anchor)
              THEN out[i].url_final \o "#" \o The(out[i].section_anchor)
              ELSE out[i].url_final

(***************************************************************************)
(* Properties of helper_no_null (SpecSanitize).                            *)
(***************************************************************************)
ScalarTypes == {"str", "int", "float", "bool"}

\* C26: helper_no_null returns, for each item, the same id, vector and
\* metadata keys, with every metadata value a scalar or a list of strings:
\* "" for None, a JSON string for a dict, set or tuple, the same value for a
\* scalar.
C26_SanitizedMetadata ==
    \A r \in sresult :
        /\ r.kind = "return"
        /\ Len(r.value) = Len(sitems)
        /\ \A i \in 1..Len(sitems) :
              LET before == sitems[i].metadata.value
                  after == r.value[i].metadata.value
              IN  /\ r.value[i].id = sitems[i].id
                  /\ r.value[i].values = sitems[i].values
                  /\ DOMAIN after = DOMAIN before
                  /\ \A k \in DOMAIN before :
                        /\ \/ after[k].type \in ScalarTypes
                           \/ /\ after[k].type = "list"
                              /\ \A j \in 1..Len(after[k].value) :
                                    after[k].value[j].type = "str"
                        /\ before[k].type = "NoneType" =>
                               after[k] = PyStr("")
                        /\ before[k].type \in {"dict", "set", "tuple"} =>
                               /\ after[k].type = "str"
                               /\ SubSeq(after[k].value, 1, 1) \in {"{", "["}
                        /\ before[k].type \in ScalarTypes =>
                               after[k] = before[k]

(***************************************************************************)
(* Properties of seeds_loader.normalize_url (SpecNorm).                    *)
(***************************************************************************)
\* C23: normalize_url is idempotent: normalizing a normalized URL gives the
\* same URL, for every input string.
C23_NormalizeIdempotent ==
    ntwice # {} => The(ntwice) = The(nonce)

(***************************************************************************)
(* Properties of filters.allow and filters (SpecFilter).  A URL's host is  *)
(* its authority, and host, extension and q= are matched without regard to *)
(* letter case.                                                            *)
(***************************************************************************)
UrlHost(u) == Lower(urlsplit(u).netloc)
UrlPath(u) == IF urlsplit(u).path = "" THEN "/" ELSE urlsplit(u).path
HostOutside(u) == UrlHost(u) \notin ALLOWED_HOSTS
DeniedExtension(u) == _has_denied_extension(UrlPath(u))
Noise(u) == _is_noise_path(UrlPath(u), urlsplit(u).query)
InScope(u) ==
    \E i \in 1..Len(ALLOW_PREFIXES_BY_HOST(UrlHost(u))) :
        StartsWith(UrlPath(u), ALLOW_PREFIXES_BY_HOST(UrlHost(u))[i])
RulesAllow(u) ==
    ~HostOutside(u) /\ ~DeniedExtension(u) /\ ~Noise(u) /\ InScope(u)

\* C24: each URL is decided by the first matching rule in the order host,
\* asset extension, noise, allow-list scope; filters returns the allowed
\* URLs in input order and one report entry per input URL.
C24_FirstMatchingRule ==
    \A r \in fresult :
        /\ r.allowed = SelectSeq(furls, RulesAllow)
        /\ Len(r.report) = Len(furls)
        /\ \A i \in 1..Len(furls) :
              LET u == furls[i]
                  e == r.report[i]
              IN  /\ e.url = u
                  /\ e.decision \in {"ALLOW", "DENY"}
                  /\ HostOutside(u) =>
                         e.decision = "DENY" /\ e.reason = "DENY:host"
                  /\ ~HostOutside(u) /\ DeniedExtension(u) =>
                         e.decision = "DENY" /\ e.reason = "DENY:asset"
                  /\ ~HostOutside(u) /\ ~DeniedExtension(u) /\ Noise(u) =>
                         e.decision = "DENY" /\ e.reason = "DENY:noise"
                  /\ ~HostOutside(u) /\ ~DeniedExtension(u) /\ ~Noise(u) =>
                         /\ e.decision = "ALLOW" <=> InScope(u)
                         /\ ~InScope(u) => e.reason = "DENY:outside-scope"

\* filters has decided a list with a foreign host on an allowed path, an
\* allowed page and an asset on a noise path.
C24_Witness ==
    /\ furls = <<"https://evil.example.com/docs/how_to/x/",
                 "https://python.langchain.com/docs/how_to/foo/",
                 "https://python.langchain.com/static/logo.svg">>
    /\ \E r \in fresult :
          /\ r.allowed = <<"https://python.langchain.com/docs/how_to/foo/">>
          /\ r.report[1].reason = "DENY:host"
          /\ r.report[3].reason = "DENY:asset"

(***************************************************************************)
(* Properties of Crawler.run (SpecCrawl).                                  *)
(***************************************************************************)
NoDuplicates(seq) == \A i, j \in 1..Len(seq) : seq[i] = seq[j] => i = j
IsDownloadRecord(r) == r.error_type = None
CanonicalOf(r) == r.url_canonica
DownloadedCanonicals ==
    LET recs == SelectSeq(rindex, IsDownloadRecord)
    IN  [i \in 1..Len(recs) |-> CanonicalOf(recs[i])]

FetchRetryState(maxGets) ==
    /\ Len(klog) <= maxGets
    /\ \A i \in 1..(Len(klog) - 1) : klog[i] = "RequestError"
    /\ \A i \in 1..Len(ksleeps) : ksleeps[i] = 15 * i
    /\ kpc \in {"done", "raised"} => Len(ksleeps) = Len(klog) - 1
    /\ kpc = "get" => Len(ksleeps) = Len(klog)
FailedOnlyAfterErrors ==
    rtotals'.failed # rtotals.failed =>
        /\ \A i \in 1..Len(klog) : klog[i] = "RequestError"
        /\ rindex' = Append(rindex, IndexRecord(The(rcur), The(rcur).url,
                                                None, 0, TRUE,
                                                Some("timeout_or_network")))

\* C30 as stated: at most retries GETs for one dequeued URL, a further GET
\* only after a network error, a wait of 1.5 * attempt number seconds
\* between GETs, failed only when every GET raised a network error.
C30_AtMostRetriesAttempts ==
    /\ [](rpc = "fetch" => FetchRetryState(kretries))
    /\ [][FailedOnlyAfterErrors]_vars

\* C30 amended: at most retries + 1 GETs; the rest as stated.
C30_AtMostRetriesPlusOneAttempts ==
    /\ [](rpc = "fetch" => FetchRetryState(kretries + 1))
    /\ [][FailedOnlyAfterErrors]_vars

\* With the default retries, a URL was counted as failed after three GETs
\* that raised a network error, with waits of 1.5 s and 3.0 s.
C30_Witness ==
    /\ kretries = DEFAULT_RETRIES
    /\ klog = <<"RequestError", "RequestError", "RequestError">>
    /\ ksleeps = <<15, 30>>
    /\ rtotals.failed = 1
    /\ rindex # <<>>
    /\ rindex[Len(rindex)].error_type = Some("timeout_or_network")

RecordHost(r) == HostOf[r.url_solicitada]
RobotsRecords == SelectSeq(rindex, LAMBDA r : ~r.robots_allowed)
\* the step dequeues an item that passes the filters and that the rules
\* cached for its host disallow
RobotsDisallowsHead ==
    /\ rpc = "loop" /\ rqueue # <<>>
    /\ Len(rdequeued') = Len(rdequeued) + 1
    /\ ~SkippedByFilter(Head(rqueue), HostOf[Head(rqueue).url])
    /\ ~RobotsAllowed(rrobots'[HostOf[Head(rqueue).url]], Head(rqueue).url)

\* C31: robots.txt is requested at most once per host and the rules cached
\* for a host, allow-all after a failed request included, never change; no
\* URL that the cached rules disallow is requested; such a URL gets one
\* record with robots_allowed false and is counted as skipped.
C31_RobotsCachedPerHost ==
    /\ [](/\ NoDuplicates(rrobots_gets)
          /\ DOMAIN rrobots = {rrobots_gets[i] : i \in 1..Len(rrobots_gets)}
          /\ \A u \in rgets : RobotsAllowed(rrobots[HostOf[u]], u)
          /\ \A i \in 1..Len(rindex) :
                ~rindex[i].robots_allowed =>
                    /\ rindex[i].error_type = Some("robots")
                    /\ rindex[i].html_crudo_path = None
                    /\ ~RobotsAllowed(rrobots[RecordHost(rindex[i])],
                                      rindex[i].url_solicitada))
    /\ [][/\ \A h \in DOMAIN rrobots :
                h \in DOMAIN rrobots' /\ rrobots'[h] = rrobots[h]
          /\ RobotsDisallowsHead =>
                /\ Len(rindex') = Len(rindex) + 1
                /\ rindex'[Len(rindex')].url_solicitada = Head(rqueue).url
                /\ ~rindex'[Len(rindex')].robots_allowed
                /\ rtotals' = Bump(rtotals, "skipped")
                /\ rgets' = rgets /\ rpc' = "loop"]_vars

\* A finished run over two hosts: robots.txt of s.com was served and that of
\* t.com was not, both were requested once, the two disallowed URLs of
\* s.com have a robots record each and the URL of t.com was requested.
C31_Witness ==
    /\ rpc = "finished"
    /\ rrobots_gets = <<"s.com", "t.com">>
    /\ rrobots["s.com"] = "site" /\ rrobots["t.com"] = "allow_all"
    /\ Len(RobotsRecords) = 2
    /\ rgets = {"https://t.com/docs/p/"}
    /\ rtotals.skipped = 2

\* C32: the queue is first-in first-out; every item ever queued has a depth
\* of at most max_depth; the seeds are queued at depth 0 and a link at the
\* depth of its page plus one, from a page saved at a depth under
\* max_depth; the depths of the dequeued items never decrease; run ends
\* only with the queue empty.
C32_FifoWithinMaxDepth ==
    /\ [](/\ rdequeued \o rqueue = renqueued
          /\ \A i \in 1..Len(renqueued) :
                /\ renqueued[i].depth <= rmax_depth
                /\ i <= Len(rseeds) <=> renqueued[i].depth = 0
                /\ renqueued[i].depth > 0 =>
                      \E j \in 1..Len(rindex) :
                          /\ rindex[j].error_type = None
                          /\ Some(rindex[j].url_canonica) = renqueued[i].parent
                          /\ rindex[j].depth + 1 = renqueued[i].depth
                          /\ rindex[j].depth < rmax_depth
          /\ \A i, j \in 1..Len(rdequeued) :
                i <= j => rdequeued[i].depth <= rdequeued[j].depth
          /\ rpc = "finished" => rqueue = <<>>)
    /\ [][/\ rdequeued' # rdequeued =>
                rqueue # <<>> /\ rdequeued' = Append(rdequeued, Head(rqueue))
          /\ rpc' = "finished" => rqueue = <<>>]_vars

\* A finished run with max_depth 1 that dequeued the seed and then links at
\* depth 1, one of them a saved page whose own links were not queued.
C32_Witness ==
    /\ rpc = "finished" /\ rmax_depth = 1
    /\ Len(rdequeued) > 3
    /\ rdequeued[1].depth = 0 /\ rdequeued[Len(rdequeued)].depth = 1
    /\ \E j \in 1..Len(rindex) :
          /\ rindex[j].url_canonica = "https://s.com/docs/b/"
          /\ rindex[j].depth = 1 /\ rindex[j].error_type = None
          /\ rindex[j].out_links_count = 0

\* C33: after every iteration of the loop the number of records written is
\* downloaded + skipped + failed.
C33_OneRecordPerUrl ==
    rpc \in {"loop", "finished"} =>
        Len(rindex) = rtotals.downloaded + rtotals.skipped + rtotals.failed

\* C34: when a page GET begins, the last page GET to the same host began at
\* least 1 / rate seconds before.
C34_GetsSpacedPerHost == \A gap \in rlast_gap : gap >= rinterval

(***************************************************************************)
(* parser/core.py: section levels, skipped zones and the section stack.    *)
(***************************************************************************)
\* every Section the parser holds has a level of 1, 2 or 3
SectionLevelsInRange ==
    \A id \in 1..Len(parser.heap) : parser.heap[id].level \in {1, 2, 3}

\* the Section last pushed is a level-3 one carrying the text of the deep
\* heading that has just been closed
DeepHeadingFolded(h) ==
    /\ parser.section_stack # <<>>
    /\ parser.heap[StackTop(parser.section_stack)].level = 3
    /\ parser.heap[StackTop(parser.section_stack)].heading_text
           = normalize_ws(h.text)
    /\ parser.heap[StackTop(parser.section_stack)].blocks = <<>>

\* C35: every Section produced by the HTML parser has a level in {1, 2, 3},
\* and a heading deeper than h3 (h4, h5, h6) opens a new level-3 Section
\* carrying its heading text.
C35_DeepHeadingsFoldToLevel3 ==
    /\ SectionLevelsInRange
    /\ \A h \in deep : h.closed => DeepHeadingFolded(h)

\* the fields a handler may write for the content of the page: the tree,
\* the stack, and the open block or heading with its buffer
BlockContentOf(ps) ==
    <<ps.heap, ps.section_stack, ps.sections, ps.in_heading, ps.heading_buf,
      ps.heading_level, ps.heading_anchor, ps.in_p, ps.p_buf, ps.in_ul,
      ps.in_ol, ps.in_li, ps.list_items, ps.li_buf, ps.in_pre, ps.in_code,
      ps.code_buf, ps.code_lang>>

\* the skip depth never goes below 0
SkipDepthNonNegative == parser.skip_depth >= 0

\* the skip depth is above 0 exactly while some skip tag has a start tag
\* not yet answered by an end tag of its own name
SkipDepthCountsOpenTags ==
    parser.skip_depth > 0 <=> \E t \in SKIP_TAGS : open_skips[t] > 0

\* a token handled inside a skipped zone changes no section, heading or
\* block and no block or heading buffer
SkippedZoneKeepsBlocks ==
    [][(parser.skip_depth > 0 /\ ppc' = "feeding")
          => BlockContentOf(parser') = BlockContentOf(parser)]_vars

\* C36: the skip depth is never negative, and while it is greater than 0
\* no section, heading, paragraph, list or code block is opened or extended
\* and no text is added to any buffer.
C36_SkippedZoneIgnored ==
    [][(parser.skip_depth > 0 /\ ppc' = "feeding")
          => /\ parser'.skip_depth >= 0
             /\ BlockContentOf(parser') = BlockContentOf(parser)
             /\ parser'.page_title = parser.page_title]_vars

\* the levels on the section stack increase strictly from bottom to top
StackIncreasing ==
    \A i \in 1..(Len(parser.section_stack) - 1) :
        parser.heap[parser.section_stack[i]].level
            < parser.heap[parser.section_stack[i + 1]].level

\* every child Section is deeper than its parent
ChildrenDeeper ==
    \A id \in 1..Len(parser.heap) :
        \A j \in 1..Len(parser.heap[id].children) :
            parser.heap[parser.heap[id].children[j]].level
                > parser.heap[id].level

\* the places of the tree that hold the Section id: positions of the root
\* list and positions of children lists
PlacesOf(id) ==
    { <<0, i>> : i \in {i \in 1..Len(parser.sections) :
                            parser.sections[i] = id} }
    \cup UNION { { <<p, j>> : j \in {j \in 1..Len(parser.heap[p].children) :
                                        parser.heap[p].children[j] = id} } :
                   p \in 1..Len(parser.heap) }
OncePerSection ==
    \A id \in 1..Len(parser.heap) : Cardinality(PlacesOf(id)) = 1

\* a step that adds blocks adds them at the end of the block list of the
\* Section on top of the stack, which is the Section that was on top before
\* unless the stack was empty
BlocksGoToStackTop ==
    \A id \in 1..Len(parser'.heap) :
        LET before == IF id <= Len(parser.heap)
                      THEN parser.heap[id].blocks ELSE <<>>
        IN  /\ Len(parser'.heap[id].blocks) >= Len(before)
            /\ SubSeq(parser'.heap[id].blocks, 1, Len(before)) = before
            /\ Len(parser'.heap[id].blocks) > Len(before)
                   => /\ id = StackTop(parser'.section_stack)
                      /\ parser.section_stack # <<>>
                             => id = StackTop(parser.section_stack)

\* C37: the section stack has strictly increasing levels from bottom to
\* top, every Section of the tree is deeper than its parent, each Section
\* appears exactly once in the tree, and a block is attached to the Section
\* on top of the stack when the block closed.
C37_StackAndTreeOrdered ==
    /\ [](StackIncreasing /\ ChildrenDeeper /\ OncePerSection)
    /\ [][BlocksGoToStackTop]_vars

\* C37 witness: a second H2 has popped an H2 and its H3 child, and a block
\* has been attached to the new top
C37_Witness ==
    /\ Len(parser.heap) = 3
    /\ parser.section_stack = <<3>>
    /\ parser.heap[1].children = <<2>>
    /\ parser.sections = <<1, 3>>
    /\ parser.heap[2].blocks # <<>>
    /\ parser.heap[3].blocks # <<>>

Range(seq) == {seq[i] : i \in 1..Len(seq)}

\* the section dicts make_chunks renders: the H2 nodes and their children,
\* or with no H2 the first H1 (or the made-up root) and its children
\* (core.py:259-280, 337-347)
RenderedSections(secs) ==
    IF Len(iter_h2_nodes(secs, <<>>)) > 0
    THEN UNION { {h.node} \cup Range(h.node.children) :
                    h \in Range(iter_h2_nodes(secs, <<>>)) }
    ELSE {first_h1_or_root(secs)}
             \cup Range(first_h1_or_root(secs).children)

\* the literal texts of the code blocks of the sections make_chunks
\* renders (the parser writes them under the key code)
CodeTexts(secs) ==
    UNION { { sec.blocks[j].code :
                j \in {j \in 1..Len(sec.blocks) :
                          sec.blocks[j].type = "code"} } :
            sec \in RenderedSections(secs) }

\* the chunk holds the code between a fence line and a closing fence
FencedIn(chunk, code) ==
    /\ chunk.has_code
    /\ \/ Contains(chunk.text, "\n" \o code \o "\n" \o Fence)
       \/ Contains(chunk.text, Fence \o "\n" \o code \o "\n" \o Fence)

\* C39: for a document produced by parse_document that holds a code block
\* with literal text C, a chunk emitted by make_chunks contains C unchanged
\* inside its code fence and has has_code = true.
C39_CodeTextReachesChunk ==
    \A d \in pdoc : \A out \in pchunks : \A code \in CodeTexts(d.sections) :
        \E i \in 1..Len(out) : FencedIn(out[i], code)

\* the section dicts of a tree, at every depth
RECURSIVE AllSections(_)
AllSections(secs) ==
    UNION { {secs[i]} \cup AllSections(secs[i].children) :
              i \in 1..Len(secs) }

\* C38: make_chunks loses no content: every non-empty block of every
\* section of a parsed document, as make_chunks renders it, appears in the
\* text of at least one emitted chunk.
C38_NoContentLost ==
    \A d \in pdoc : \A out \in pchunks :
        \A sec \in AllSections(d.sections) :
            \A j \in 1..Len(sec.blocks) :
                render_block(sec.blocks[j]).text # ""
                    => \E i \in 1..Len(out) :
                           Contains(out[i].text,
                                    render_block(sec.blocks[j]).text)

\* the blocks of the sections make_chunks renders do reach a chunk
RenderedContentKept ==
    \A d \in pdoc : \A out \in pchunks :
        \A sec \in RenderedSections(d.sections) :
            \A j \in 1..Len(sec.blocks) :
                render_block(sec.blocks[j]).text # ""
                    => \E i \in 1..Len(out) :
                           Contains(out[i].text,
                                    render_block(sec.blocks[j]).text)

\* the metadata a query returns for an item the vector store was given: the
\* keys and values it was sent
RetrievedMetadata(item) ==
    [k \in DOMAIN MetadataOf(item) |-> Some(PyStrOf(MetadataOf(item)[k]))]

\* rag.py:217-231  the Document built for a match of that item
RetrievedDoc(item) == DocsOfMatches(<<RetrievedMetadata(item)>>)[1]

\* C40: for every chunk whose item the ingestion driver gives to the vector
\* store, the metadata sent holds the chunk's text under the field text, and
\* a retrieved match for it yields a passage whose content is that text.
C40_TextRoundTrips ==
    \A b \in 1..Len(isent) : \A i \in 1..Len(isent[b]) :
        \A c \in 1..Len(ichunks) :
            (Truthy(Get(ichunks[c], "id")) /\ Truthy(Get(ichunks[c], "text"))
             /\ The(ichunks[c].id) = isent[b][i].id.value)
                => /\ TEXT_FIELD_NAME \in DOMAIN MetadataOf(isent[b][i])
                   /\ RetrievedDoc(isent[b][i]).page_content
                          = The(ichunks[c].text)

====
